---------------------------- MODULE Spec2Model ----------------------------
(***************************************************************************)
(* A model of ts-extended-deprecation-plugin: the diagnostic merge         *)
(* (getUniqueDiagnostics), the alias-chain walker                          *)
(* (isSymbolDeprecatedRecursively) and the diagnostics pass                *)
(* (checkDiagnostics / isImportDeclarationDeprecated) over a small         *)
(* program of modules.                                                     *)
(*                                                                         *)
(* The specifications share the variables:                                 *)
(*   SpecMerge     the merge applied to bounded lists of diagnostics       *)
(*   SpecWalk      the walker, one loop iteration per step, over every     *)
(*                 alias graph on a bounded set of symbols                 *)
(*   SpecChain     the walker on the checker's two alias queries           *)
(*   Spec          the language-service proxy: diagnostics passes over an  *)
(*                 analysed file that imports from other modules           *)
(*   SpecResolve   single calls of isImportDeclarationDeprecated           *)
(*   SpecProxy     the forwarded operations and the hover handler          *)
(*   SpecComments  isSymbolDeprecated on the comments of declarations      *)
(*   SpecEdits     the program versions between create() and a pass        *)
(***************************************************************************)
EXTENDS Integers, Sequences, FiniteSets, TLC

VARIABLES
    (* merge harness *)
    mPrior,          \* priorDiagnostics handed to getUniqueDiagnostics
    mNew,            \* diagnostics (newly found) handed to getUniqueDiagnostics
    mOnce,           \* getUniqueDiagnostics(mPrior, mNew)
    mTwice,          \* getUniqueDiagnostics(mOnce, mNew)
    mPc,             \* "start" | "merged" | "remerged"
    (* alias-chain walker *)
    wSymbols,        \* the checker's answers: symbol -> [decls, isAlias, aliased]
    wStart,          \* the symbol the walk was started on
    currentSymbol,   \* let currentSymbol
    visitedSymbols,  \* const visitedSymbols = new Set()
    examined,        \* symbol -> number of isSymbolDeprecated calls in this walk
    wIter,           \* loop iterations entered in this walk
    wPc,             \* "loop" | "done"
    wResult,         \* the walker's return value once wPc = "done"
    (* language-service proxy *)
    world,           \* the program: the analysed file and the modules it imports from
    checker,         \* const checker, captured once in create()
    caches,          \* the six module-level Map caches
    pCall,           \* the last proxy call: [handler, fileName, priorDiagnostics]
    pResult,         \* the list that call returned
    pPc              \* "ready" | "returned" | "thrown"

mergeVars == <<mPrior, mNew, mOnce, mTwice, mPc>>
walkVars == <<wSymbols, wStart, currentSymbol, visitedSymbols, examined, wIter, wPc, wResult>>
passVars == <<world, checker, caches, pCall, pResult, pPc>>
vars == <<mergeVars, walkVars, passVars>>

None == "undefined"

Range(s) == {s[i] : i \in DOMAIN s}

RECURSIVE SeqsUpTo(_, _)
SeqsUpTo(S, n) ==
    IF n = 0 THEN {<<>>}
    ELSE LET shorter == SeqsUpTo(S, n - 1)
         IN  shorter \cup {Append(s, x) : s \in {t \in shorter : Len(t) = n - 1}, x \in S}

(***************************************************************************)
(* Diagnostics.  A diagnostic is a record with the fields the plugin reads  *)
(* and writes; "by" stands for the object's identity: who constructed it.  *)
(***************************************************************************)
DeprecatedCode == 6385
RelatedCode == 2798

\* src/src/index.ts:142-147, every Map empty
EmptyCaches ==
    [importNodeCache |-> <<>>, exportSymbolCache |-> <<>>,
     wildCardExportDeclarationsCache |-> <<>>, wildCardExportDeclarationCache |-> <<>>,
     wildCardExportSymbolCache |-> <<>>, importCache |-> <<>>]

\* src/src/index.ts:11-19
areDiagnosticEqual(a, b) ==
    /\ a.start = b.start
    /\ a.length = b.length
    /\ a.code = b.code
    /\ a.category = b.category
    /\ a.file = b.file

\* mutant: every prior diagnostic is kept
KeepPriorAlways(prior, new) == prior

\* src/src/index.ts:25-31: a prior diagnostic is kept unless some new one equals it
KeepPrior(prior, new) ==
    SelectSeq(prior, LAMBDA p : ~ \E i \in DOMAIN new : areDiagnosticEqual(new[i], p))

\* src/src/index.ts:34-40: each new diagnostic is pushed unless an entry equals it
RECURSIVE AddNew(_, _)
AddNew(unique, new) ==
    IF new = <<>> THEN unique
    ELSE LET d == Head(new)
             isUnique == ~ \E i \in DOMAIN unique : areDiagnosticEqual(unique[i], d)
         IN  AddNew(IF isUnique THEN Append(unique, d) ELSE unique, Tail(new))

\* src/src/index.ts:21-43
getUniqueDiagnostics(priorDiagnostics, diagnostics) ==
    AddNew(KeepPrior(priorDiagnostics, diagnostics), diagnostics)

(***************************************************************************)
(* SpecMerge: the merge on every pair of lists of at most MaxMergeLen      *)
(* diagnostics drawn from MergeKeys.                                       *)
(***************************************************************************)
MaxMergeLen == 2

MergeBase == [file |-> "c.ts", start |-> 10, length |-> 1, code |-> DeprecatedCode,
              category |-> "Warning"]

\* the base key and one variant per compared field
MergeKeys ==
    { MergeBase,
      [MergeBase EXCEPT !.start = 20],
      [MergeBase EXCEPT !.length = 2],
      [MergeBase EXCEPT !.code = 2304],
      [MergeBase EXCEPT !.category = "Error"],
      [MergeBase EXCEPT !.file = "a.ts"] }

MergeDiag(k, who) ==
    [file |-> k.file, start |-> k.start, length |-> k.length, code |-> k.code,
     category |-> k.category, by |-> who]

walkIdle ==
    /\ wSymbols = <<>>
    /\ wStart = None
    /\ currentSymbol = None
    /\ visitedSymbols = {}
    /\ examined = <<>>
    /\ wIter = 0
    /\ wPc = "idle"
    /\ wResult = FALSE

passIdle ==
    /\ world = None
    /\ checker = None
    /\ caches = EmptyCaches
    /\ pCall = None
    /\ pResult = <<>>
    /\ pPc = "idle"

mergeIdle ==
    /\ mPrior = <<>>
    /\ mNew = <<>>
    /\ mOnce = <<>>
    /\ mTwice = <<>>
    /\ mPc = "idle"

InitMerge ==
    /\ mPrior \in SeqsUpTo({MergeDiag(k, "oracle") : k \in MergeKeys}, MaxMergeLen)
    /\ mNew \in SeqsUpTo({MergeDiag(k, "plugin") : k \in MergeKeys}, MaxMergeLen)
    /\ mOnce = <<>>
    /\ mTwice = <<>>
    /\ mPc = "start"
    /\ walkIdle
    /\ passIdle

MergeOnce ==
    /\ mPc = "start"
    /\ mOnce' = getUniqueDiagnostics(mPrior, mNew)
    /\ mPc' = "merged"
    /\ UNCHANGED <<mPrior, mNew, mTwice, walkVars, passVars>>

MergeAgain ==
    /\ mPc = "merged"
    /\ mTwice' = getUniqueDiagnostics(mOnce, mNew)
    /\ mPc' = "remerged"
    /\ UNCHANGED <<mPrior, mNew, mOnce, walkVars, passVars>>

NextMerge == MergeOnce \/ MergeAgain

SpecMerge == InitMerge /\ [][NextMerge]_vars

(***************************************************************************)
(* Claims about the merge (checked under SpecMerge).                       *)
(***************************************************************************)
SameSpanCode(a, b) == a.start = b.start /\ a.length = b.length /\ a.code = b.code

CountWhere(s, P(_)) == Cardinality({i \in DOMAIN s : P(s[i])})

\* C8 (as stated): the merged list holds no two entries with identical
\* (start offset, length, code).
C8_NoTwoEntriesShareSpanAndCode ==
    mPc # "start" =>
        \A i, j \in DOMAIN mOnce : i # j => ~ SameSpanCode(mOnce[i], mOnce[j])

\* C9 (as stated): when a prior and a new diagnostic have the same deduplication
\* key, the prior one is kept in the result and the new one is dropped.
C9_PriorWinsTies ==
    mPc # "start" =>
        \A i \in DOMAIN mPrior, j \in DOMAIN mNew :
            areDiagnosticEqual(mPrior[i], mNew[j]) =>
                /\ mPrior[i] \in Range(mOnce)
                /\ mNew[j] \notin Range(mOnce)

\* C9 (amended): when a prior and a new diagnostic are equal under
\* areDiagnosticEqual, the prior one is dropped and the key is held by exactly
\* one entry of the result, a new (plugin) one.
C9_NewWinsTies ==
    mPc # "start" =>
        \A i \in DOMAIN mPrior, j \in DOMAIN mNew :
            areDiagnosticEqual(mPrior[i], mNew[j]) =>
                /\ mPrior[i] \notin Range(mOnce)
                /\ mNew[j] \in Range(mOnce)
                /\ CountWhere(mOnce, LAMBDA d : areDiagnosticEqual(d, mNew[j])) = 1

\* C9 witness: a merge was run on lists holding a tie, together with a prior
\* entry that ties with nothing and is kept.
C9_TieMerged ==
    /\ mPc = "merged"
    /\ \E i \in DOMAIN mPrior, j \in DOMAIN mNew : areDiagnosticEqual(mPrior[i], mNew[j])
    /\ \E i \in DOMAIN mPrior : mPrior[i] \in Range(mOnce)

\* C10 (as stated): merging the same new diagnostics a second time changes
\* nothing, and the result holds exactly one entry for each new diagnostic's
\* (start, length, code).
C10_RemergeIdempotentOneEntryPerSpanCode ==
    mPc = "remerged" =>
        /\ mTwice = mOnce
        /\ \A j \in DOMAIN mNew :
               CountWhere(mTwice, LAMBDA d : SameSpanCode(d, mNew[j])) = 1

(***************************************************************************)
(* The alias-chain walker.  The checker is an oracle: per symbol it answers *)
(* getDeclarations (here: per declaration, whether its leading comments     *)
(* hold the marker), flags & Alias, and getAliasedSymbol.  SpecWalk draws   *)
(* every such oracle over NumSymbols symbols, cycles and self-aliases       *)
(* included.                                                               *)
(***************************************************************************)
NumSymbols == 3

SymbolNames == <<"A", "B", "C", "D", "E">>

Symbols == {SymbolNames[i] : i \in 1 .. NumSymbols}

\* getDeclarations(): no declaration, one, or two (the marker on the second)
DeclLists == {<<>>, <<FALSE>>, <<TRUE>>, <<FALSE, TRUE>>}

SymbolAnswers ==
    [decls : DeclLists, isAlias : {FALSE}, aliased : {None}]
        \cup [decls : DeclLists, isAlias : {TRUE}, aliased : Symbols \cup {None}]

\* mutant: declarations.every(...) in place of declarations.some(...)
isSymbolDeprecatedEvery(symbol) ==
    \A i \in DOMAIN symbol.decls : symbol.decls[i]

\* src/src/utils.ts:133-136 (a declaration's flag is isDeclarationDeprecated of it)
isSymbolDeprecated(symbol) ==
    \E i \in DOMAIN symbol.decls : symbol.decls[i]

InitWalk ==
    /\ wSymbols \in [Symbols -> SymbolAnswers]
    /\ wStart \in Symbols
    /\ currentSymbol = wStart
    /\ visitedSymbols = {}
    /\ examined = [s \in Symbols |-> 0]
    /\ wIter = 0
    /\ wPc = "loop"
    /\ wResult = FALSE
    /\ mergeIdle
    /\ passIdle

WalkReturn(value) ==
    /\ wPc' = "done"
    /\ wResult' = value
    /\ UNCHANGED currentSymbol

\* mutant: the walker without its visited-set guard
WalkIterationNoGuard ==
    /\ wPc = "loop"
    /\ wIter' = wIter + 1
    /\ UNCHANGED <<wSymbols, wStart, mergeVars, passVars>>
    /\ IF currentSymbol = None
       THEN /\ WalkReturn(FALSE)
            /\ UNCHANGED <<visitedSymbols, examined>>
       ELSE LET sym == wSymbols[currentSymbol]
                aliasedSymbol == sym.aliased
            IN  /\ visitedSymbols' = visitedSymbols \cup {currentSymbol}
                /\ examined' = [examined EXCEPT ![currentSymbol] = @ + 1]
                /\ IF isSymbolDeprecated(sym) THEN WalkReturn(TRUE)
                   ELSE IF ~ sym.isAlias THEN WalkReturn(FALSE)
                   ELSE IF aliasedSymbol # None /\ aliasedSymbol # currentSymbol
                        THEN /\ currentSymbol' = aliasedSymbol
                             /\ UNCHANGED <<wPc, wResult>>
                        ELSE WalkReturn(FALSE)

\* src/unnamed/part_000:335-367, one iteration of while (currentSymbol)
WalkIteration ==
    /\ wPc = "loop"
    /\ wIter' = wIter + 1
    /\ UNCHANGED <<wSymbols, wStart, mergeVars, passVars>>
    /\ IF currentSymbol = None \/ currentSymbol \in visitedSymbols
       THEN \* the loop condition fails, or "Avoid cycles": break
            /\ WalkReturn(FALSE)
            /\ UNCHANGED <<visitedSymbols, examined>>
       ELSE LET sym == wSymbols[currentSymbol]
                aliasedSymbol == sym.aliased
            IN  /\ visitedSymbols' = visitedSymbols \cup {currentSymbol}
                /\ examined' = [examined EXCEPT ![currentSymbol] = @ + 1]
                /\ IF isSymbolDeprecated(sym) THEN WalkReturn(TRUE)
                   ELSE IF ~ sym.isAlias THEN WalkReturn(FALSE)
                   ELSE IF aliasedSymbol # None /\ aliasedSymbol # currentSymbol
                        THEN /\ currentSymbol' = aliasedSymbol
                             /\ UNCHANGED <<wPc, wResult>>
                        ELSE WalkReturn(FALSE)

NextWalk == WalkIteration

SpecWalk == InitWalk /\ [][NextWalk]_vars

(***************************************************************************)
(* Claims about the walker (checked under SpecWalk).                       *)
(***************************************************************************)
\* one getAliasedSymbol hop, as the walker takes it
AliasHop(s) ==
    IF s \in Symbols /\ wSymbols[s].isAlias THEN wSymbols[s].aliased ELSE None

RECURSIVE AliasHops(_, _)
AliasHops(s, n) == IF n = 0 THEN s ELSE AliasHops(AliasHop(s), n - 1)

\* the symbols of the alias cycle through s, when s lies on one
CycleOf(s) == {AliasHops(s, k) : k \in 0 .. NumSymbols - 1}

\* some declaration of s has the marker in its comments
Marked(s) == \E i \in DOMAIN wSymbols[s].decls : wSymbols[s].decls[i]

OnAliasCycle(s) == \E n \in 1 .. NumSymbols : AliasHops(s, n) = s

\* C5: the walk stops on every alias graph, cyclic ones included (the loop is
\* entered at most once per symbol plus once for the guard, and a walk that has
\* used all its entries has stopped), and no symbol is examined twice in a walk.
C5_WalkStopsEachSymbolExaminedOnce ==
    /\ \A s \in Symbols : examined[s] <= 1
    /\ wIter <= Cardinality(Symbols) + 1
    /\ wIter = Cardinality(Symbols) + 1 => wPc = "done"
    /\ wPc = "loop" => Cardinality(visitedSymbols) = wIter

\* C5 witness: a walk that went round a cycle through every symbol and was
\* stopped by the visited-set guard.
C5_FullCycleWalked ==
    /\ wPc = "done"
    /\ visitedSymbols = Symbols
    /\ currentSymbol \in visitedSymbols
    /\ wIter = Cardinality(Symbols) + 1

\* C6: started on a symbol of an alias cycle none of whose symbols is marked
\* deprecated, the walker stops after at most one entry per cycle symbol plus
\* one, and returns false.
C6_CleanCycleReturnsFalse ==
    (OnAliasCycle(wStart) /\ \A s \in CycleOf(wStart) : ~ Marked(s)) =>
        /\ wIter <= Cardinality(CycleOf(wStart)) + 1
        /\ wIter = Cardinality(CycleOf(wStart)) + 1 => wPc = "done"
        /\ wPc = "done" => wResult = FALSE

\* C6 witness: a finished walk that was started on a two-symbol cycle
\* (A aliases B, B aliases A) with no deprecated symbol on it.
C6_TwoCycleWalked ==
    /\ wPc = "done"
    /\ OnAliasCycle(wStart)
    /\ Cardinality(CycleOf(wStart)) = 2
    /\ \A s \in CycleOf(wStart) : ~ Marked(s)
    /\ wResult = FALSE

(***************************************************************************)
(* The program under analysis.  The parser, the module resolver and the    *)
(* type checker are oracles; the definitions below give their answers for  *)
(* a small project:                                                        *)
(*                                                                         *)
(*   a.ts   declares f (a function, or a const inside a variable           *)
(*          statement) and has   export { f as g }                         *)
(*   a2.ts  declares another f                                             *)
(*   b.ts   export * from "./a"   and optionally   export * from "./a2"    *)
(*   lib    a package under node_modules exporting a deprecated f          *)
(*   o.ts   a first-party file in a directory named my_node_modules_x,     *)
(*          exporting a deprecated f                                       *)
(*   c.ts   the analysed file: one import statement (or one re-export      *)
(*          statement), then usages                                        *)
(*   data.json  a file of the program with an unsupported extension        *)
(*   s.ts   a script: a file of the program that is no module              *)
(*   gone.ts    a file on disk that the program has no source file for     *)
(*                                                                         *)
(* A file name is the sequence of its pieces, so that includes() and       *)
(* endsWith() are tests on the pieces.                                     *)
(***************************************************************************)
Files == {"a", "a2", "b", "n", "o", "c", "j", "s"}

FileNameOf ==
    [a  |-> <<"/p/src/a", ".ts">>,
     a2 |-> <<"/p/src/a2", ".ts">>,
     b  |-> <<"/p/src/b", ".ts">>,
     n  |-> <<"/p/", "node_modules", "/lib/index", ".ts">>,
     o  |-> <<"/p/my_", "node_modules", "_x/o", ".ts">>,
     c  |-> <<"/p/src/c", ".ts">>,
     j  |-> <<"/p/src/data", ".json">>,
     s  |-> <<"/p/src/s", ".ts">>]

\* a name the program has no source file for
NotInProgram == <<"/p/src/gone", ".ts">>

\* String.prototype.includes on a file name
Includes(name, piece) == \E i \in DOMAIN name : name[i] = piece

\* mutant: every file name counts as supported
isSupportedFileTypeAlways(name) == TRUE

\* src/src/utils.ts:15-18
isSupportedFileType(name) ==
    \E ext \in {".ts", ".tsx", ".js", ".jsx"} : name # <<>> /\ name[Len(name)] = ext

\* program.getSourceFile(fileName)
getSourceFile(name) ==
    IF \E f \in Files : FileNameOf[f] = name
    THEN CHOOSE f \in Files : FileNameOf[f] = name
    ELSE None

\* the resolvedFileName of a module specifier that does not resolve
Unresolved == <<>>

\* ts.resolveModuleName(moduleName, containingFile, ...).resolvedModule?.resolvedFileName
resolveModuleName(moduleName, containingFile) ==
    CASE moduleName = "./a" /\ containingFile \in {FileNameOf.c, FileNameOf.b} -> FileNameOf.a
      [] moduleName = "./a2" /\ containingFile = FileNameOf.b -> FileNameOf.a2
      [] moduleName = "./b" /\ containingFile = FileNameOf.c -> FileNameOf.b
      [] moduleName = "lib" -> FileNameOf.n
      [] moduleName = "../my_node_modules_x/o" /\ containingFile = FileNameOf.c -> FileNameOf.o
      [] moduleName = "./s" /\ containingFile = FileNameOf.c -> FileNameOf.s
      [] moduleName = "./gone" /\ containingFile = FileNameOf.c -> NotInProgram
      [] OTHER -> Unresolved

(***************************************************************************)
(* The import statement of c.ts, and the flags of the declarations.        *)
(***************************************************************************)
Element(name, propertyName) == [name |-> name, propertyName |-> propertyName]

NamedImport(elements, moduleSpecifier) ==
    [bindings |-> "NamedImports", elements |-> elements, moduleSpecifier |-> moduleSpecifier]

ImportStatements ==
    { NamedImport(<<Element("f", None)>>, "./a"),
      NamedImport(<<Element("g", None)>>, "./a"),
      NamedImport(<<Element("f", None), Element("g", None)>>, "./a"),
      NamedImport(<<Element("h", "f")>>, "./a"),
      NamedImport(<<Element("g", "f")>>, "./a"),
      NamedImport(<<Element("f", None)>>, "./b"),
      NamedImport(<<Element("f", None), Element("h", "g")>>, "./b"),
      NamedImport(<<Element("h", "f")>>, "./b"),
      NamedImport(<<Element("f", None)>>, "lib"),
      NamedImport(<<Element("f", None)>>, "./missing"),
      NamedImport(<<Element("f", None)>>, "./gone"),
      NamedImport(<<Element("f", None)>>, "./s"),
      NamedImport(<<Element("f", None)>>, "../my_node_modules_x/o"),
      [bindings |-> "NamespaceImport", elements |-> <<>>, moduleSpecifier |-> "./a"],
      \* import d from "./a"
      [bindings |-> "DefaultImport", elements |-> <<>>, moduleSpecifier |-> "./a"],
      \* export { f } from "./a": an export declaration in the place of the
      \* import statement
      [bindings |-> "NamedExports", elements |-> <<Element("f", None)>>,
       moduleSpecifier |-> "./a"] }

\* the local names an import statement binds
Bindings(import) ==
    IF import.bindings = "NamespaceImport" THEN <<"ns">>
    ELSE IF import.bindings = "DefaultImport" THEN <<"d">>
    ELSE IF import.bindings = "NamedExports" THEN <<>>
    ELSE [i \in DOMAIN import.elements |-> import.elements[i].name]

MaxUsages == 2

\* a usage names binding i of the import statement; 0 is a symbol that c.ts
\* declares itself, with a deprecation comment
UsageLists(import) == SeqsUpTo(0 .. Len(Bindings(import)), MaxUsages)

Programs ==
    { w \in [import : ImportStatements,
             usages : SeqsUpTo(0 .. 2, MaxUsages),
             fShape : {"FunctionDeclaration", "VariableDeclaration"},
             fDeprecated : BOOLEAN,          \* marker on f's own declaration
             fStatementDeprecated : BOOLEAN, \* marker on the variable statement around f
             gDeprecated : BOOLEAN,          \* marker on the export specifier  f as g
             gStatementDeprecated : BOOLEAN, \* marker on the statement  export { f as g }
             star1Deprecated : BOOLEAN,      \* marker on  export * from "./a"
             secondStar : BOOLEAN,           \* b.ts also has  export * from "./a2"
             star2Deprecated : BOOLEAN] :
        /\ w.usages \in UsageLists(w.import)
        /\ w.fShape = "FunctionDeclaration" => ~ w.fStatementDeprecated
        /\ ~ w.secondStar => ~ w.star2Deprecated
        \* declarations of modules the statement does not reach keep one value
        /\ w.import.moduleSpecifier \notin {"./a", "./b"} =>
               w.fShape = "FunctionDeclaration" /\ ~ w.fDeprecated
        /\ ~ (w.import.moduleSpecifier = "./a" /\ "g" \in Range(Bindings(w.import))) =>
               ~ w.gDeprecated /\ ~ w.gStatementDeprecated
        /\ w.import.moduleSpecifier # "./b" => ~ w.star1Deprecated /\ ~ w.secondStar }

(***************************************************************************)
(* Syntax nodes of the imported modules.  A node is named by a string; its  *)
(* record holds what the plugin reads from it: getSourceFile(), the kind,   *)
(* parent, getStart() and getEnd() - getStart(), and whether its leading    *)
(* comments or JSDoc blocks hold the marker.                                *)
(***************************************************************************)
SyntaxNode(file, kind, parent, marked, start, length) ==
    [file |-> file, kind |-> kind, parent |-> parent, marked |-> marked,
     start |-> start, length |-> length]

SourceFileNode(file) == SyntaxNode(file, "SourceFile", None, FALSE, 0, 99)

NodeIds ==
    Files \cup {"a.f", "a.f.list", "a.f.stmt", "a.g", "a.g.named", "a.g.stmt", "a2.f",
                "b.star1", "b.star2", "n.f", "o.f"}

\* the node an id names, in program p
NodeOf(p, id) ==
    CASE id \in Files -> SourceFileNode(id)
      [] id = "a.f" ->
            SyntaxNode("a", p.fShape,
                       IF p.fShape = "FunctionDeclaration" THEN "a" ELSE "a.f.list",
                       p.fDeprecated, 30, 5)
      [] id = "a.f.list" -> SyntaxNode("a", "VariableDeclarationList", "a.f.stmt", FALSE, 24, 11)
      [] id = "a.f.stmt" -> SyntaxNode("a", "VariableStatement", "a", p.fStatementDeprecated, 17, 19)
      [] id = "a.g" -> SyntaxNode("a", "ExportSpecifier", "a.g.named", p.gDeprecated, 50, 6)
      [] id = "a.g.named" -> SyntaxNode("a", "NamedExports", "a.g.stmt", FALSE, 48, 10)
      [] id = "a.g.stmt" -> SyntaxNode("a", "ExportDeclaration", "a", p.gStatementDeprecated, 41, 18)
      [] id = "a2.f" -> SyntaxNode("a2", "FunctionDeclaration", "a2", FALSE, 7, 5)
      [] id = "b.star1" -> SyntaxNode("b", "ExportDeclaration", "b", p.star1Deprecated, 0, 20)
      [] id = "b.star2" -> SyntaxNode("b", "ExportDeclaration", "b", p.star2Deprecated, 21, 21)
      [] id = "n.f" -> SyntaxNode("n", "FunctionDeclaration", "n", TRUE, 19, 5)
      [] id = "o.f" -> SyntaxNode("o", "FunctionDeclaration", "o", TRUE, 19, 5)

\* ts.isDeclarationStatement
DeclarationStatementKinds ==
    {"FunctionDeclaration", "MissingDeclaration", "ClassDeclaration", "InterfaceDeclaration",
     "TypeAliasDeclaration", "EnumDeclaration", "ModuleDeclaration", "ImportDeclaration",
     "ImportEqualsDeclaration", "ExportDeclaration", "ExportAssignment",
     "NamespaceExportDeclaration"}

(***************************************************************************)
(* Symbols.                                                                 *)
(***************************************************************************)
Symbol(name, declarations) == [name |-> name, declarations |-> declarations]

\* no symbol: what the checker returns as undefined
NoSymbol == Symbol(None, <<>>)

\* a module symbol is named by the quoted path of its file
ModuleSymbolName ==
    [a |-> "\"/p/src/a\"", a2 |-> "\"/p/src/a2\"", b |-> "\"/p/src/b\"",
     n |-> "\"/p/node_modules/lib/index\"", o |-> "\"/p/my_node_modules_x/o\"",
     c |-> "\"/p/src/c\"", j |-> "\"/p/src/data\""]

ModuleSymbol(file) == Symbol(ModuleSymbolName[file], <<file>>)

\* the named entries of moduleSymbol.exports
OwnExports(file) ==
    CASE file = "a" -> <<Symbol("f", <<"a.f">>), Symbol("g", <<"a.g">>)>>
      [] file = "a2" -> <<Symbol("f", <<"a2.f">>)>>
      [] file = "n" -> <<Symbol("f", <<"n.f">>)>>
      [] file = "o" -> <<Symbol("f", <<"o.f">>)>>
      [] OTHER -> <<>>

\* the declarations of the "__export" entry of moduleSymbol.exports
ExportStarDeclarations(p, file) ==
    IF file # "b" THEN <<>>
    ELSE IF p.secondStar THEN <<"b.star1", "b.star2">> ELSE <<"b.star1">>

\* (declaration as ts.ExportDeclaration).moduleSpecifier.text
StarModuleSpecifier(declaration) == IF declaration = "b.star1" THEN "./a" ELSE "./a2"

HasName(symbols, name) == \E i \in DOMAIN symbols : symbols[i].name = name

\* symbols.find(s => s.name === name)
FindByName(symbols, name) ==
    IF HasName(symbols, name)
    THEN symbols[CHOOSE i \in DOMAIN symbols :
                    /\ symbols[i].name = name
                    /\ \A k \in 1 .. i - 1 : symbols[k].name # name]
    ELSE NoSymbol

\* the checker's extendExportStars: a name already present is kept, default is
\* not forwarded
RECURSIVE extendExportStars(_, _)
extendExportStars(target, source) ==
    IF source = <<>> THEN target
    ELSE extendExportStars(IF Head(source).name = "default" \/ HasName(target, Head(source).name)
                           THEN target ELSE Append(target, Head(source)),
                           Tail(source))

\* the checker's getExportsOfModule: the module's own exports, then what its
\* export * declarations forward
RECURSIVE ExportsOfModule(_, _)
RECURSIVE ForwardedExports(_, _, _, _)
ForwardedExports(p, file, stars, nested) ==
    IF stars = <<>> THEN nested
    ELSE ForwardedExports(p, file, Tail(stars),
             extendExportStars(nested,
                 ExportsOfModule(p, getSourceFile(resolveModuleName(StarModuleSpecifier(Head(stars)),
                                                                    FileNameOf[file])))))

ExportsOfModule(p, file) ==
    IF file = None THEN <<>>
    ELSE extendExportStars(OwnExports(file),
                           ForwardedExports(p, file, ExportStarDeclarations(p, file), <<>>))

(***************************************************************************)
(* A world is a program together with the oracles' answers about it: the   *)
(* parser's nodes, and per module the export * declarations of             *)
(* moduleSymbol.exports and checker.getExportsOfModule.                    *)
(***************************************************************************)
World(p) ==
    [import |-> p.import,
     usages |-> p.usages,
     nodes |-> [id \in NodeIds |-> NodeOf(p, id)],
     exportStars |-> [file \in Files |-> ExportStarDeclarations(p, file)],
     exportsOfModule |-> [file \in Files |-> ExportsOfModule(p, file)]]

Worlds == {World(p) : p \in Programs}

Node(w, id) == w.nodes[id]

\* checker.getExportsOfModule(moduleSymbol) for the module symbol of a file
getExportsOfModule(w, file) == w.exportsOfModule[file]

\* src/src/utils.ts:108-110 on a node of an imported module: the checker has a
\* symbol for the source file of a module, none for a script's and none for a
\* statement, a list or a specifier
getSymbolAtNode(w, id) ==
    IF w.nodes[id].kind = "SourceFile" /\ id # "s" THEN ModuleSymbol(id) ELSE NoSymbol

\* mutant: every declaration counts as deprecated
isDeclarationDeprecatedAlways(w, declaration) == TRUE

\* src/src/utils.ts:158-182
isDeclarationDeprecated(w, declaration) == w.nodes[declaration].marked

\* src/src/utils.ts:133-136 on a symbol of the program
isProgramSymbolDeprecated(w, symbol) ==
    \E i \in DOMAIN symbol.declarations : isDeclarationDeprecated(w, symbol.declarations[i])

\* src/src/utils.ts:82-94
isNodeDeprecated(w, id) ==
    \/ getSymbolAtNode(w, id) # NoSymbol /\ isProgramSymbolDeprecated(w, getSymbolAtNode(w, id))
    \/ w.nodes[id].kind \in DeclarationStatementKinds /\ isDeclarationDeprecated(w, id)

(***************************************************************************)
(* Nodes of the analysed file c.ts.  The import statement starts the file;  *)
(* element i is the import specifier at 10 * i, usage k an identifier at    *)
(* 100 + 10 * k.  The plugin reads getStart() and getEnd() - getStart() of  *)
(* these nodes and getText() of an import specifier.                        *)
(***************************************************************************)
LocalNode(kind, start, length) == [kind |-> kind, start |-> start, length |-> length]

\* the values undefined and null where a node is expected
UndefinedNode == LocalNode("undefined", 0, 0)
NullNode == LocalNode("null", 0, 0)

\* the import specifier of element i:  f   or   f as h
ImportSpecifierNode(w, i) ==
    LocalNode("ImportSpecifier", 10 * i,
              IF w.import.elements[i].propertyName = None THEN 1 ELSE 6)

\* element.name, the identifier a specifier binds
SpecifierNameNode(w, i) ==
    LocalNode("Identifier",
              IF w.import.elements[i].propertyName = None THEN 10 * i ELSE 10 * i + 5, 1)

\* the identifier of usage k
UsageNode(k) == LocalNode("Identifier", 100 + 10 * k, 1)

\* importSpec.getText() === importName: the text of a specifier is its name
\* only when it does not rename
SpecifierWithText(w, importName) ==
    LET hits == {i \in DOMAIN w.import.elements :
                    /\ w.import.elements[i].propertyName = None
                    /\ w.import.elements[i].name = importName}
    IN  IF hits = {} THEN UndefinedNode
        ELSE ImportSpecifierNode(w, CHOOSE i \in hits : \A k \in hits : k <= i)

\* searchNodeForImportSpecifier (src/src/index.ts:539-544): the first
\* specifier whose name.text is importName
searchNodeForImportSpecifier(w, importName) ==
    LET hits == {i \in DOMAIN w.import.elements : w.import.elements[i].name = importName}
    IN  IF hits = {} THEN UndefinedNode
        ELSE ImportSpecifierNode(w, CHOOSE i \in hits : \A k \in hits : i <= k)

(***************************************************************************)
(* Diagnostics of the plugin.                                               *)
(***************************************************************************)
\* src/src/index.ts:55-105; node is a node of c.ts, declarationOverride a node
\* of a module.  The callers hand [] as priorDiagnostics.
createDeprecatedDiagnostic(w, node, symbolName, symbol, sourceFile, priorDiagnostics, declarationOverride) ==
    LET declaration == IF declarationOverride # None THEN declarationOverride
                       ELSE symbol.declarations[1]
        alreadyReported ==
            \E i \in DOMAIN priorDiagnostics :
                /\ priorDiagnostics[i].start = node.start
                /\ priorDiagnostics[i].length = node.length
                /\ priorDiagnostics[i].code = DeprecatedCode
    IN  IF alreadyReported THEN [by |-> "null"]
        ELSE [file |-> sourceFile,
              start |-> node.start,
              length |-> node.length,
              messageText |-> <<"'", symbolName, "' is deprecated.">>,
              category |-> "Warning",
              reportsDeprecated |-> TRUE,
              code |-> DeprecatedCode,
              relatedInformation |->
                  <<[start |-> Node(w, declaration).start,
                     length |-> Node(w, declaration).length,
                     file |-> Node(w, declaration).file,
                     messageText |-> "The declaration was marked as deprecated here.",
                     category |-> "Error",
                     code |-> RelatedCode]>>,
              by |-> "plugin"]

(***************************************************************************)
(* The caches.  A Map is a function from its keys.  importCache and         *)
(* exportSymbolCache hold diagnostics that nothing reads back; the model    *)
(* keeps how many diagnostics an entry holds.                               *)
(***************************************************************************)
\* src/src/index.ts:181-183; the statement is the one import statement of c.ts
getImportNodeCacheKey(importName) ==
    [fileName |-> FileNameOf.c, text |-> "import", importName |-> importName]

\* src/src/index.ts:185-188
getCachedImportNodeFor(c, importName) ==
    IF getImportNodeCacheKey(importName) \in DOMAIN c.importNodeCache
    THEN c.importNodeCache[getImportNodeCacheKey(importName)]
    ELSE UndefinedNode

\* src/src/index.ts:190-193
setCachedImportNodeFor(c, importName, importNode) ==
    [c EXCEPT !.importNodeCache =
        (getImportNodeCacheKey(importName) :> importNode) @@ c.importNodeCache]

\* src/src/index.ts:195-199
getImportCacheKey(targetSymbol) ==
    [fileName |-> FileNameOf.c, text |-> "import", symbolName |-> targetSymbol.name]

\* src/src/index.ts:206-226
addCachedDiagnosticForImportDeclaration(c, targetSymbol, count) ==
    LET cacheKey == getImportCacheKey(targetSymbol)
        held == IF cacheKey \in DOMAIN c.importCache
                THEN c.importCache[cacheKey].diagnostics ELSE 0
    IN  [c EXCEPT !.importCache =
            (cacheKey :> [symbol |-> targetSymbol.name, diagnostics |-> held + count,
                          isDeprecated |-> TRUE]) @@ c.importCache]

(***************************************************************************)
(* isImportDeclarationDeprecated on the import statement of c.ts.  The     *)
(* state threaded through one call is [diagnostics, thrown, caches]: the    *)
(* list built so far, whether a TypeError was raised, and the caches.  A   *)
(* binding b is [importName, symbolName, exportSymbol,                      *)
(* exportSymbolDeclaration] of the element at hand.                         *)
(***************************************************************************)
\* src/src/index.ts:500
setExportSymbolCache(c, exportSymbol, written) ==
    IF written THEN [c EXCEPT !.exportSymbolCache = (exportSymbol.name :> 1) @@ @] ELSE c

\* src/src/index.ts:488-500 and 553-563: a diagnostic is created for importNode
\* and pushed, and the caches are written; createDeprecatedDiagnostic raises on
\* node.getText() when importNode is undefined or null
PushDiagnostic(w, st, importNode, b, sourceFile, cachesExportSymbol) ==
    IF importNode.kind \in {"undefined", "null"} THEN [st EXCEPT !.thrown = TRUE]
    ELSE [diagnostics |->
              Append(st.diagnostics,
                     createDeprecatedDiagnostic(w, importNode, b.symbolName, b.exportSymbol,
                                                sourceFile, <<>>, b.exportSymbolDeclaration)),
          thrown |-> FALSE,
          caches |->
              setExportSymbolCache(
                  addCachedDiagnosticForImportDeclaration(st.caches, b.exportSymbol, 1),
                  b.exportSymbol, cachesExportSymbol)]

\* src/src/index.ts:468-486: the specifier is looked up by its text unless the
\* cache has the name; null is cached before the search
AncestorImportNode(w, st, b, cached, found) ==
    PushDiagnostic(w,
                   IF cached.kind # "undefined" THEN st
                   ELSE [st EXCEPT !.caches =
                            setCachedImportNodeFor(st.caches, b.importName,
                                IF found.kind = "undefined" THEN NullNode ELSE found)],
                   IF cached.kind # "undefined" THEN cached ELSE found,
                   b, w.nodes[b.exportSymbolDeclaration].file, TRUE)

\* src/src/index.ts:467-501: an ancestor of the export's declaration is deprecated
AncestorDiagnostic(w, st, b) ==
    AncestorImportNode(w, st, b, getCachedImportNodeFor(st.caches, b.importName),
                       SpecifierWithText(w, b.importName))

\* src/src/index.ts:459-503: every ancestor below the source file is looked at
RECURSIVE AncestorCheck(_, _, _, _)
AncestorCheck(w, st, b, exportSymbolParent) ==
    IF st.thrown \/ exportSymbolParent = None THEN st
    ELSE IF w.nodes[exportSymbolParent].kind = "SourceFile" THEN st
    ELSE AncestorCheck(w,
                       IF isNodeDeprecated(w, exportSymbolParent)
                       THEN AncestorDiagnostic(w, st, b) ELSE st,
                       b, w.nodes[exportSymbolParent].parent)

\* src/src/index.ts:545-563
DirectImportNode(w, st, b, cached, importNode) ==
    PushDiagnostic(w,
                   IF cached.kind # "undefined" THEN st
                   ELSE [st EXCEPT !.caches =
                            setCachedImportNodeFor(st.caches, b.importName, importNode)],
                   importNode, b, "c", FALSE)

\* src/src/index.ts:525-565
DirectDiagnostic(w, st, b, declaration, cached) ==
    IF declaration = None THEN st
    ELSE IF w.nodes[declaration].parent = None THEN st
    ELSE IF ~ isDeclarationDeprecated(w, declaration) THEN st
    ELSE DirectImportNode(w, st, [b EXCEPT !.exportSymbolDeclaration = declaration], cached,
                          IF cached.kind = "undefined"
                          THEN searchNodeForImportSpecifier(w, b.importName) ELSE cached)

\* src/src/index.ts:506-568: the export's own declaration
DirectCheck(w, st, b) ==
    IF st.thrown \/ b.exportSymbol = NoSymbol THEN st
    ELSE DirectDiagnostic(w, st, b,
                          IF b.exportSymbolDeclaration # None THEN b.exportSymbolDeclaration
                          ELSE IF b.exportSymbol.declarations # <<>>
                               THEN b.exportSymbol.declarations[1] ELSE None,
                          getCachedImportNodeFor(st.caches, b.importName))

\* src/src/index.ts:456-568 for one resolved binding
CheckBinding(w, st, b) ==
    DirectCheck(w,
                AncestorCheck(w, st, b,
                              IF b.exportSymbolDeclaration = None THEN None
                              ELSE w.nodes[b.exportSymbolDeclaration].parent),
                b)

\* src/src/index.ts:371-392: the three attempts to resolve a forwarded module:
\* the specifier's text; its getText(), which keeps the quotes and names no
\* module; the module's own file name, which resolves to the module itself
ResolveWildcardModule(declaration, moduleSourceFile) ==
    IF resolveModuleName(StarModuleSpecifier(declaration), FileNameOf[moduleSourceFile])
           # Unresolved
    THEN resolveModuleName(StarModuleSpecifier(declaration), FileNameOf[moduleSourceFile])
    ELSE FileNameOf[moduleSourceFile]

\* src/src/index.ts:398-440 for one export * declaration; getExportsOfModule of
\* an undefined module symbol raises
MatchWildcard(w, match, wildcardExport, wildcardModuleSourceFile, importNameToMatch) ==
    IF wildcardModuleSourceFile = None THEN [match EXCEPT !.thrown = TRUE]
    ELSE IF HasName(getExportsOfModule(w, wildcardModuleSourceFile), importNameToMatch)
    THEN [match EXCEPT !.exportSymbol = getSymbolAtNode(w, w.nodes[wildcardExport].parent),
                       !.exportSymbolDeclaration = wildcardExport]
    ELSE match

\* src/src/index.ts:360-441: forEach over the export * declarations; every
\* declaration whose module exports the name overwrites the match
RECURSIVE MatchWildcards(_, _, _, _, _)
MatchWildcards(w, moduleSourceFile, declarations, importNameToMatch, match) ==
    IF declarations = <<>> \/ match.thrown THEN match
    ELSE MatchWildcards(w, moduleSourceFile, Tail(declarations), importNameToMatch,
             MatchWildcard(w, match, Head(declarations),
                           getSourceFile(ResolveWildcardModule(Head(declarations),
                                                               moduleSourceFile)),
                           importNameToMatch))

\* src/src/index.ts:324-357: the export * declarations of the module, collected
\* once per pass
WildcardDeclarations(w, c, moduleSourceFile) ==
    IF moduleSourceFile \in DOMAIN c.wildCardExportDeclarationsCache
    THEN c.wildCardExportDeclarationsCache[moduleSourceFile]
    ELSE w.exportStars[moduleSourceFile]

Match(exportSymbol, exportSymbolDeclaration) ==
    [exportSymbol |-> exportSymbol, exportSymbolDeclaration |-> exportSymbolDeclaration,
     thrown |-> FALSE]

\* src/src/index.ts:456 onwards, once exportSymbol and exportSymbolDeclaration
\* are settled
CheckMatch(w, st, importName, importNameToMatch, match) ==
    IF match.thrown THEN [st EXCEPT !.thrown = TRUE]
    ELSE CheckBinding(w, st,
                      [importName |-> importName, symbolName |-> importNameToMatch,
                       exportSymbol |-> match.exportSymbol,
                       exportSymbolDeclaration |-> match.exportSymbolDeclaration])

\* src/src/index.ts:296-454: the export found by name, else the wildcard
\* fallback; a found export whose name is not the filter's is skipped
CheckExport(w, st, moduleSourceFile, importName, importNameToMatch, found, optionalSymbolToMatch) ==
    IF found # NoSymbol /\ optionalSymbolToMatch # NoSymbol
                        /\ found.name # optionalSymbolToMatch.name
    THEN st
    ELSE CheckMatch(w,
                    IF found # NoSymbol THEN st
                    ELSE [st EXCEPT !.caches.wildCardExportDeclarationsCache =
                             (moduleSourceFile :>
                                  WildcardDeclarations(w, st.caches, moduleSourceFile)) @@ @],
                    importName, importNameToMatch,
                    IF found # NoSymbol
                    THEN Match(found, IF found.declarations # <<>>
                                      THEN found.declarations[1] ELSE None)
                    ELSE MatchWildcards(w, moduleSourceFile,
                                        WildcardDeclarations(w, st.caches, moduleSourceFile),
                                        importNameToMatch, Match(NoSymbol, None)))

\* src/src/index.ts:287-569, the body of the loop for one element
CheckElement(w, st, moduleSourceFile, element, optionalSymbolToMatch) ==
    CheckExport(w, st, moduleSourceFile, element.name,
                IF optionalSymbolToMatch # NoSymbol
                THEN optionalSymbolToMatch.name ELSE element.name,
                FindByName(getExportsOfModule(w, moduleSourceFile), element.name),
                optionalSymbolToMatch)

RECURSIVE CheckElements(_, _, _, _, _)
CheckElements(w, st, moduleSourceFile, elements, optionalSymbolToMatch) ==
    IF elements = <<>> \/ st.thrown THEN st
    ELSE CheckElements(w,
                       CheckElement(w, st, moduleSourceFile, Head(elements), optionalSymbolToMatch),
                       moduleSourceFile, Tail(elements), optionalSymbolToMatch)

\* a call's state at its start: const diagnostics = []
CallStart(c) == [diagnostics |-> <<>>, thrown |-> FALSE, caches |-> c]

\* mutant: the resolved module is looked into wherever it lives
CheckResolvedAnywhere(w, c, optionalSymbolToMatch, resolvedFileName) ==
    IF resolvedFileName = Unresolved THEN CallStart(c)
    ELSE IF getSourceFile(resolvedFileName) = None THEN CallStart(c)
    ELSE IF getSymbolAtNode(w, getSourceFile(resolvedFileName)) = NoSymbol THEN CallStart(c)
    ELSE CheckElements(w, CallStart(c), getSourceFile(resolvedFileName), w.import.elements,
                       optionalSymbolToMatch)

\* mutant: the elements are looked up in o.ts, whatever the specifier resolves to
CheckResolvedElsewhere(w, c, optionalSymbolToMatch, resolvedFileName) ==
    CheckElements(w, CallStart(c), "o", w.import.elements, optionalSymbolToMatch)

\* src/src/index.ts:263-279, once the module specifier is resolved
CheckResolved(w, c, optionalSymbolToMatch, resolvedFileName) ==
    IF resolvedFileName = Unresolved THEN CallStart(c)
    ELSE IF Includes(resolvedFileName, "node_modules") THEN CallStart(c)
    ELSE IF getSourceFile(resolvedFileName) = None THEN CallStart(c)
    ELSE IF getSymbolAtNode(w, getSourceFile(resolvedFileName)) = NoSymbol THEN CallStart(c)
    ELSE CheckElements(w, CallStart(c), getSourceFile(resolvedFileName), w.import.elements,
                       optionalSymbolToMatch)

\* src/src/index.ts:229-584 with currentNode the import statement of c.ts
isImportDeclarationDeprecated(w, c, optionalSymbolToMatch) ==
    IF w.import.bindings # "NamedImports" THEN CallStart(c)
    ELSE CheckResolved(w, c, optionalSymbolToMatch,
                       resolveModuleName(w.import.moduleSpecifier, FileNameOf.c))

(***************************************************************************)
(* checkDiagnostics: the traversal of the analysed file and the merge.  A  *)
(* leaf is [node, binding]: an identifier and the binding of the import     *)
(* statement it names (0: a symbol that c.ts declares itself).              *)
(***************************************************************************)
Leaf(node, binding) == [node |-> node, binding |-> binding]

\* the identifiers the import statement binds, in source order
SpecifierLeaves(w) ==
    [i \in DOMAIN w.import.elements |-> Leaf(SpecifierNameNode(w, i), i)]

UsageLeaves(w) == [k \in DOMAIN w.usages |-> Leaf(UsageNode(k), w.usages[k])]

\* src/src/index.ts:717-723: what the statement yields for the leaf's symbol
\* is moved to the leaf and pushed
MoveToLeaf(acc, node, r) ==
    IF r.thrown THEN [acc EXCEPT !.thrown = TRUE, !.caches = r.caches]
    ELSE [acc EXCEPT !.caches = r.caches,
                     !.diagnostics = @ \o
                         [k \in DOMAIN r.diagnostics |->
                             [r.diagnostics[k] EXCEPT !.start = node.start,
                                                      !.length = node.length]]]

\* src/src/index.ts:658-728 for an identifier leaf: isImportDeclarationDeprecated
\* answers undefined for it; when the first declaration of its symbol is an
\* import specifier, the statement is resolved again for that symbol
VisitIdentifier(w, acc, leaf) ==
    IF acc.thrown THEN acc
    ELSE IF leaf.binding = 0 \/ w.import.bindings # "NamedImports" THEN acc
    ELSE MoveToLeaf(acc, leaf.node,
                    isImportDeclarationDeprecated(w, acc.caches,
                        Symbol(w.import.elements[leaf.binding].name, <<"c.specifier">>)))

RECURSIVE VisitLeaves(_, _, _)
VisitLeaves(w, acc, leaves) ==
    IF leaves = <<>> THEN acc
    ELSE VisitLeaves(w, VisitIdentifier(w, acc, Head(leaves)), Tail(leaves))

\* src/src/index.ts:658-664 and 730 for the import statement: its diagnostics
\* get the category of the pass and end the visit of the statement; with none,
\* the leaves of the statement are visited; the usages follow
VisitStatements(w, acc, category, r) ==
    IF r.thrown THEN [acc EXCEPT !.thrown = TRUE, !.caches = r.caches]
    ELSE IF r.diagnostics # <<>>
    THEN VisitLeaves(w,
                     [acc EXCEPT !.caches = r.caches,
                                 !.diagnostics = @ \o
                                     [k \in DOMAIN r.diagnostics |->
                                         [r.diagnostics[k] EXCEPT !.category = category]]],
                     UsageLeaves(w))
    ELSE VisitLeaves(w, [acc EXCEPT !.caches = r.caches],
                     SpecifierLeaves(w) \o UsageLeaves(w))

\* src/src/index.ts:638-733, visit(sourceFile) on c.ts
visit(w, acc, category) ==
    VisitStatements(w, acc, category, isImportDeclarationDeprecated(w, acc.caches, NoSymbol))

\* src/src/index.ts:736, and what the pass leaves behind
PassOutcome(priorDiagnostics, cleared, visited) ==
    [thrown |-> visited.thrown,
     cachesAtStart |-> cleared,
     caches |-> visited.caches,
     diagnostics |-> visited.diagnostics,
     result |-> IF visited.thrown THEN <<>>
                ELSE getUniqueDiagnostics(priorDiagnostics, visited.diagnostics)]

\* mutant: the pass starts on the caches as the pass before left them
keepCaches(c) == c

\* src/src/index.ts:628-633: importNodeCache.clear() ... importCache.clear()
clearCaches(c) == [cache \in DOMAIN c |-> <<>>]

\* src/src/index.ts:635-736: the guarded traversal, then the merge
Traverse(w, ck, cleared, name, priorDiagnostics, category) ==
    PassOutcome(priorDiagnostics, cleared,
                IF getSourceFile(name) # None /\ ck # None /\ isSupportedFileType(name)
                THEN visit(w, CallStart(cleared), category)
                ELSE CallStart(cleared))

\* src/src/index.ts:618-737; c is what the caches hold when the pass is called
checkDiagnostics(w, ck, c, name, priorDiagnostics, category) ==
    Traverse(w, ck, clearCaches(c), name, priorDiagnostics, category)

(***************************************************************************)
(* Spec: the proxy.  The host asks for the diagnostics of a file; the       *)
(* wrapped service answers first (priorDiagnostics), then checkDiagnostics  *)
(* runs to its return or to a TypeError.                                    *)
(***************************************************************************)
\* what the wrapped language service may answer for a file
OracleDiagnostic(file, start, length, code, category) ==
    [file |-> file, start |-> start, length |-> length, code |-> code,
     category |-> category, by |-> "oracle"]

PriorLists(file) ==
    IF file # "c" THEN { <<OracleDiagnostic(file, 0, 1, 1005, "Error")>> }
    ELSE
    { <<>>,
      \* the checker's own deprecation suggestion on the first import specifier
      <<OracleDiagnostic(file, 10, 1, DeprecatedCode, "Suggestion")>>,
      \* an unrelated error, and the checker's suggestion on the first usage
      <<OracleDiagnostic(file, 40, 5, 2307, "Error"),
        OracleDiagnostic(file, 110, 1, DeprecatedCode, "Suggestion")>> }

RequestedFiles == {FileNameOf.c, FileNameOf.j, NotInProgram}

Init ==
    /\ world \in Worlds
    \* getProgram() may have no program yet when create() runs
    /\ checker \in IF world.usages = <<>> THEN {"checker", None} ELSE {"checker"}
    /\ caches = EmptyCaches
    /\ pCall = None
    /\ pResult = <<>>
    /\ pPc = "ready"
    /\ mergeIdle
    /\ walkIdle

Request(handler, name, priorDiagnostics, category) ==
    \E r \in {checkDiagnostics(world, checker, caches, name, priorDiagnostics, category)} :
        /\ pPc # "idle"
        /\ pCall' = [handler |-> handler, fileName |-> name,
                     priorDiagnostics |-> priorDiagnostics,
                     \* whether an earlier pass left entries behind, and what
                     \* the caches held when this pass reached its guard
                     afterEntries |-> caches # EmptyCaches,
                     cachesAtStart |-> r.cachesAtStart]
        /\ caches' = r.caches
        /\ pResult' = r.result
        /\ pPc' = IF r.thrown THEN "thrown" ELSE "returned"
        /\ UNCHANGED <<world, checker, mergeVars, walkVars>>

\* src/src/index.ts:746-749
GetSemanticDiagnostics ==
    \E name \in RequestedFiles :
        \E priorDiagnostics \in PriorLists(getSourceFile(name)) :
            Request("getSemanticDiagnostics", name, priorDiagnostics, "Warning")

\* src/src/index.ts:740-743
GetSuggestionDiagnostics ==
    \E name \in RequestedFiles :
        \E priorDiagnostics \in PriorLists(getSourceFile(name)) :
            Request("getSuggestionDiagnostics", name, priorDiagnostics, "Suggestion")

Next == GetSemanticDiagnostics \/ GetSuggestionDiagnostics

Spec == Init /\ [][Next]_vars

(***************************************************************************)
(* Claims about a diagnostics pass (checked under Spec).                   *)
(***************************************************************************)
\* a pass over c.ts that ran the traversal and returned
PassReturned ==
    /\ pPc = "returned"
    /\ pCall.fileName = FileNameOf.c
    /\ checker # None

\* the module the import statement of c.ts resolves to
ImportedModule == getSourceFile(resolveModuleName(world.import.moduleSpecifier, FileNameOf.c))

FirstParty ==
    /\ ImportedModule # None
    /\ ~ Includes(FileNameOf[ImportedModule], "node_modules")

\* the name an element imports: f in  f as h
ExportedName(element) ==
    IF element.propertyName # None THEN element.propertyName ELSE element.name

\* the declaration element i refers to: the first declaration of the export of
\* that name, None when the module has no such export
ReferencedDeclaration(i) ==
    IF world.import.bindings # "NamedImports" \/ ImportedModule = None THEN None
    ELSE IF ~ HasName(getExportsOfModule(world, ImportedModule),
                      ExportedName(world.import.elements[i])) THEN None
    ELSE FindByName(getExportsOfModule(world, ImportedModule),
                    ExportedName(world.import.elements[i])).declarations[1]

\* the usages of c.ts that refer to a declaration whose own comment holds the
\* marker: a deprecated first-party export, or the deprecated symbol of c.ts
DeprecatedUsages ==
    {k \in DOMAIN world.usages :
        \/ world.usages[k] = 0
        \/ /\ world.import.bindings = "NamedImports"
           /\ FirstParty
           /\ ReferencedDeclaration(world.usages[k]) # None
           /\ world.nodes[ReferencedDeclaration(world.usages[k])].marked}

\* the entries of the returned list that carry the deprecation code at a node
DeprecationsAt(node) ==
    {i \in DOMAIN pResult :
        /\ pResult[i].code = DeprecatedCode
        /\ pResult[i].start = node.start
        /\ pResult[i].length = node.length}

\* C1 (as stated): in the list a pass returns, every usage of a declaration whose
\* comment holds the marker has exactly one diagnostic with code 6385 at its span
\* (the wrapped service reported nothing itself).
C1_EveryDeprecatedUsageHasOneDiagnostic ==
    (PassReturned /\ pCall.priorDiagnostics = <<>>) =>
        \A k \in DeprecatedUsages : Cardinality(DeprecationsAt(UsageNode(k))) = 1

\* the ancestors of a node below its source file
RECURSIVE AncestorsOf(_)
AncestorsOf(id) ==
    IF world.nodes[id].parent = None \/ world.nodes[world.nodes[id].parent].kind = "SourceFile"
    THEN {}
    ELSE {world.nodes[id].parent} \cup AncestorsOf(world.nodes[id].parent)

\* where related information points when it names a declaration
LocationOf(id) ==
    [file |-> world.nodes[id].file, start |-> world.nodes[id].start,
     length |-> world.nodes[id].length]

RelatedLocation(d) ==
    [file |-> d.relatedInformation[1].file, start |-> d.relatedInformation[1].start,
     length |-> d.relatedInformation[1].length]

\* the usages of c.ts that name the alias g (export { f as g }) of a.ts
AliasUsages ==
    {k \in DOMAIN world.usages :
        /\ world.usages[k] # 0
        /\ ReferencedDeclaration(world.usages[k]) = "a.g"}

\* C2 (as stated): when f is declared deprecated, a usage of its alias g has a
\* diagnostic whose related information is the location of f's declaration.
C2_AliasUsageFlaggedAtOriginalDeclaration ==
    (PassReturned /\ world.nodes["a.f"].marked) =>
        \A k \in AliasUsages :
            \E i \in DeprecationsAt(UsageNode(k)) :
                /\ pResult[i].by = "plugin"
                /\ RelatedLocation(pResult[i]) = LocationOf("a.f")

\* the elements whose export is declared inside a container that holds the
\* marker while the declaration itself has no marker
ContainedElements ==
    {i \in DOMAIN world.import.elements :
        /\ FirstParty
        /\ ReferencedDeclaration(i) # None
        /\ ~ world.nodes[ReferencedDeclaration(i)].marked
        /\ \E container \in AncestorsOf(ReferencedDeclaration(i)) :
               world.nodes[container].marked}

\* C3 (as stated): the import of an export nested in a deprecated container is
\* flagged at its import specifier although the export's own declaration has no
\* marker.
C3_ImportOfContainedExportFlagged ==
    PassReturned =>
        \A i \in ContainedElements : DeprecationsAt(ImportSpecifierNode(world, i)) # {}

\* the elements that import the deprecated f of a.ts through b.ts, which has
\* export * from "./a"
WildcardElements ==
    {i \in DOMAIN world.import.elements :
        /\ world.import.moduleSpecifier = "./b"
        /\ ExportedName(world.import.elements[i]) = "f"
        /\ world.nodes["a.f"].marked}

\* C4 (as stated): a named import of the deprecated f of a.ts from b.ts has a
\* deprecation diagnostic at its import specifier.
C4_WildcardImportFlagged ==
    PassReturned =>
        \A i \in WildcardElements : DeprecationsAt(ImportSpecifierNode(world, i)) # {}

\* C7: a pass over a file whose import statement resolves to a path containing
\* node_modules returns the wrapped service's list and nothing of the plugin,
\* and does not raise, whatever the module exports and wherever the bindings
\* are used.
C7_NodeModulesImportContributesNothing ==
    (pPc \in {"returned", "thrown"} /\ ImportedModule # None
        /\ Includes(FileNameOf[ImportedModule], "node_modules")) =>
        /\ pPc = "returned"
        /\ pResult = pCall.priorDiagnostics
        /\ \A i \in DOMAIN pResult : pResult[i].by # "plugin"

\* C7 witness: a pass returned for c.ts, which imports the deprecated f of the
\* package under node_modules and uses it.
C7_NodeModulesPassReturned ==
    /\ PassReturned
    /\ world.import.moduleSpecifier = "lib"
    /\ world.nodes["n.f"].marked
    /\ \E k \in DOMAIN world.usages : world.usages[k] = 1


(***************************************************************************)
(* Where the plugin's diagnostics are located.                              *)
(***************************************************************************)
\* the usage-site nodes of c.ts: import specifiers, their names, references
UsageSiteNodes ==
    {ImportSpecifierNode(world, i) : i \in DOMAIN world.import.elements}
        \cup {SpecifierNameNode(world, i) : i \in DOMAIN world.import.elements}
        \cup {UsageNode(k) : k \in DOMAIN world.usages}

\* the entries of the returned list that the plugin created
PluginEntries == {i \in DOMAIN pResult : pResult[i].by = "plugin"}

\* C11 (as stated): every diagnostic the plugin created has the analysed file as
\* its file and the span of a usage-site node of that file as its (start, length).
C11_PluginDiagnosticsAtUsageSites ==
    PassReturned =>
        \A i \in PluginEntries :
            /\ pResult[i].file = "c"
            /\ \E n \in UsageSiteNodes :
                   n.start = pResult[i].start /\ n.length = pResult[i].length

\* C11, the span alone
C11_SpanOnly ==
    PassReturned =>
        \A i \in PluginEntries :
            \E n \in UsageSiteNodes :
                n.start = pResult[i].start /\ n.length = pResult[i].length


(***************************************************************************)
(* The caches across passes.                                                *)
(***************************************************************************)
\* a handler call has ended, by a return or by a TypeError
PassEnded == pPc \in {"returned", "thrown"}

\* C12: whatever passes ran before, all six caches are empty when a pass reaches
\* its traversal, so a pass reads no entry that an earlier pass wrote.
C12_CachesEmptyWhenPassBegins ==
    PassEnded =>
        \A cache \in DOMAIN pCall.cachesAtStart : pCall.cachesAtStart[cache] = <<>>

\* C12 witness: a pass over c.ts ran its traversal after an earlier pass had
\* left entries in the caches.
C12_PassAfterPassWithEntries ==
    /\ PassReturned
    /\ pCall.afterEntries
    /\ caches.importCache # <<>>


(***************************************************************************)
(* SpecProxy: the operations of the proxy that are no diagnostics pass.     *)
(* init.create copies every operation of the wrapped language service into  *)
(* the proxy as a forwarder, then overrides some of them.  Two versions of  *)
(* init.create are in the repository for the hover operation: src/index.ts  *)
(* leaves it a forwarder, part_000 overrides it.  world is here             *)
(* [entry, quickInfo]: the version that built the proxy and what the        *)
(* wrapped service answers to a hover request.  The handlers keep no state  *)
(* between calls: a behaviour is one call.                                  *)
(***************************************************************************)
Entries == {"src/index.ts", "part_000"}

\* for (let k in oldLanguageService): operations of the wrapped service
Operations ==
    {"getQuickInfoAtPosition", "getDefinitionAtPosition",
     "getSemanticDiagnostics", "getSuggestionDiagnostics"}

\* the proxy[k] = ... assignments that follow the forwarding loop
Overridden(entry) ==
    IF entry = "part_000"
    THEN {"getQuickInfoAtPosition", "getSuggestionDiagnostics", "getSemanticDiagnostics"}
    ELSE {"getSuggestionDiagnostics", "getSemanticDiagnostics"}

\* ts.QuickInfo | undefined, with its optional tags
QuickInfo(defined, hasTags, tags) ==
    [defined |-> defined, hasTags |-> hasTags, tags |-> tags]

QuickInfos ==
    {QuickInfo(FALSE, FALSE, <<>>), QuickInfo(TRUE, FALSE, <<>>),
     QuickInfo(TRUE, TRUE, <<"see">>), QuickInfo(TRUE, TRUE, <<"see", "since">>)}

\* the symbols of the hovered file, and the positions a hover may name: one on
\* a token without a symbol, one on each symbol's identifier, one past the end
HoverSymbols == {"A", "B"}

Positions == {5, 110, 120, 999}

\* findNodeAtPosition: the innermost node that holds the position, if any
findNodeAtPosition(position) == [defined |-> position # 999, at |-> position]

\* checker.getSymbolAtLocation(node) for the node at a position

SymbolAtPosition(position) ==
    IF position = 110 THEN "A" ELSE IF position = 120 THEN "B" ELSE None

\* x.apply(thisArg, args) on the wrapped service: what it answers depends on the
\* operation, the receiver and the arguments
oldLanguageService(w, k, thisArg, args) ==
    [operation |-> k, receiver |-> thisArg, args |-> args,
     value |-> IF k = "getQuickInfoAtPosition" THEN w.quickInfo
               ELSE QuickInfo(FALSE, FALSE, <<>>)]

\* mutant: the forwarder drops the arguments
forwardWithoutArguments(w, k, args) ==
    oldLanguageService(w, k, "oldLanguageService", <<>>)

\* src/src/index.ts:599-600: (...args) => x.apply(oldLanguageService, args)
forward(w, k, args) ==
    oldLanguageService(w, k, "oldLanguageService", args)

InitProxy ==
    /\ world \in [entry : Entries, quickInfo : QuickInfos]
    /\ checker \in {"checker", None}
    /\ caches = EmptyCaches
    /\ pCall = None
    /\ pResult = <<>>
    /\ pPc = "ready"
    /\ wSymbols \in [HoverSymbols -> {a \in SymbolAnswers : a.aliased \in HoverSymbols \cup {None}}]
    /\ wStart = None
    /\ currentSymbol = None
    /\ visitedSymbols = {}
    /\ examined = [s \in HoverSymbols |-> 0]
    /\ wIter = 0
    /\ wPc = "idle"
    /\ wResult = FALSE
    /\ mergeIdle

\* a call of an operation that init.create left a forwarder
Forward ==
    \E k \in Operations \ Overridden(world.entry), name \in RequestedFiles, position \in Positions :
        /\ pPc = "ready"
        /\ pCall' = [handler |-> k, args |-> <<name, position>>]
        /\ pResult' = forward(world, k, <<name, position>>)
        /\ pPc' = "forwarded"
        /\ UNCHANGED <<world, checker, caches, mergeVars, walkVars>>

\* part_000:75-98: symbol.getDeclarations()[0] is dereferenced
createDeprecatedQuickInfoTag(symbol) ==
    IF symbol.decls = <<>> THEN [thrown |-> TRUE, name |-> None]
    ELSE [thrown |-> FALSE, name |-> "deprecated"]

\* part_000:417-418: quickInfo.tags = quickInfo.tags || []; quickInfo.tags.push(tag)
PushTag(quickInfo, deprecationTag) ==
    QuickInfo(TRUE, TRUE,
              Append(IF quickInfo.hasTags THEN quickInfo.tags ELSE <<>>, deprecationTag.name))

\* part_000:402-411, up to the call of isSymbolDeprecatedRecursively.  The
\* original operation is called through a bare reference (no receiver).
HoverCall ==
    \E name \in RequestedFiles, position \in Positions :
        \E quickInfo \in {oldLanguageService(world, "getQuickInfoAtPosition", None,
                                             <<name, position>>).value} :
            /\ pPc = "ready"
            /\ world.entry = "part_000"
            /\ pCall' = [handler |-> "getQuickInfoAtPosition", args |-> <<name, position>>,
                         quickInfo |-> quickInfo]
            /\ UNCHANGED <<world, checker, caches, mergeVars, wSymbols, examined, wIter,
                           visitedSymbols, wResult>>
            /\ IF ~ isSupportedFileType(name)
               THEN /\ pResult' = quickInfo
                    /\ pPc' = "returned"
                    /\ UNCHANGED <<wStart, currentSymbol, wPc>>
               ELSE IF getSourceFile(name) = None
               THEN \* findNodeAtPosition(undefined, position): TypeError
                    /\ pResult' = <<>>
                    /\ pPc' = "thrown"
                    /\ UNCHANGED <<wStart, currentSymbol, wPc>>
               ELSE IF findNodeAtPosition(position).defined /\ checker # None
                       /\ SymbolAtPosition(position) # None
               THEN /\ wStart' = SymbolAtPosition(position)
                    /\ currentSymbol' = SymbolAtPosition(position)
                    /\ wPc' = "loop"
                    /\ pPc' = "walking"
                    /\ UNCHANGED pResult
               ELSE /\ pResult' = quickInfo
                    /\ pPc' = "returned"
                    /\ UNCHANGED <<wStart, currentSymbol, wPc>>

\* part_000:411-423, from the return of isSymbolDeprecatedRecursively
HoverReturn ==
    /\ pPc = "walking"
    /\ wPc = "done"
    /\ UNCHANGED <<world, checker, caches, pCall, mergeVars, walkVars>>
    /\ IF ~ wResult
       THEN pResult' = pCall.quickInfo /\ pPc' = "returned"
       ELSE \E deprecationTag \in {createDeprecatedQuickInfoTag(wSymbols[wStart])} :
                IF deprecationTag.thrown \/ ~ pCall.quickInfo.defined
                THEN pResult' = <<>> /\ pPc' = "thrown"
                ELSE /\ pResult' = PushTag(pCall.quickInfo, deprecationTag)
                     /\ pPc' = "returned"

NextProxy == Forward \/ HoverCall \/ WalkIteration \/ HoverReturn

SpecProxy == InitProxy /\ [][NextProxy]_vars

\* C13: an operation that the proxy does not override is answered by the
\* original operation, applied to the wrapped service with the caller's
\* arguments; the proxy returns that answer as it is.
C13_OtherOperationsPassThrough ==
    pPc = "forwarded" =>
        /\ pCall.handler \notin Overridden(world.entry)
        /\ pResult = oldLanguageService(world, pCall.handler, "oldLanguageService", pCall.args)

\* C13 witness: a forwarded call of an operation that no version overrides, with
\* a file name and a position as its arguments.
C13_DefinitionRequestForwarded ==
    /\ pPc = "forwarded"
    /\ pCall.handler = "getDefinitionAtPosition"
    /\ pCall.args = <<FileNameOf.c, 110>>
    /\ pResult.args = <<FileNameOf.c, 110>>

\* the symbols on the alias chain from s
AliasChain(s) == {AliasHops(s, k) : k \in 0 .. NumSymbols} \ {None}

\* the hover result a finished call handed back
HoverResult == IF pPc = "forwarded" THEN pResult.value ELSE pResult

\* C14 (as stated): a hover on a symbol that is deprecated along its alias chain
\* (in a file of the program, the checker at hand) returns the tags the wrapped
\* service answered, in order, followed by one tag named "deprecated".
C14_HoverAppendsDeprecatedTag ==
    ( /\ pPc \in {"forwarded", "returned", "thrown"}
      /\ pCall.handler = "getQuickInfoAtPosition"
      /\ pCall.args[1] = FileNameOf.c
      /\ checker # None
      /\ SymbolAtPosition(pCall.args[2]) # None
      /\ \E s \in AliasChain(SymbolAtPosition(pCall.args[2])) : Marked(s) ) =>
        /\ pPc # "thrown"
        /\ HoverResult.hasTags
        /\ HoverResult.tags = Append(world.quickInfo.tags, "deprecated")


(***************************************************************************)
(* What a pass does with what it cannot resolve.                            *)
(***************************************************************************)
\* C15 (as stated): a diagnostics pass never raises; it completes and its result
\* holds the diagnostics of the wrapped service (each one itself, or the equal
\* diagnostic the merge kept in its place).
C15_PassNeverRaises ==
    (pPc # "ready") =>
        /\ pPc = "returned"
        /\ \A i \in DOMAIN pCall.priorDiagnostics :
               \E j \in DOMAIN pResult :
                   areDiagnosticEqual(pCall.priorDiagnostics[i], pResult[j])


\* the import statement of c.ts names no module the plugin can look into: the
\* specifier does not resolve, or resolves to a file the program has no source
\* file for, or to a file without a module symbol
ImportLeadsNowhere ==
    \/ ImportedModule = None
    \/ getSymbolAtNode(world, ImportedModule) = NoSymbol

\* C16: when the import statement of the analysed file leads to no module, the
\* pass ends without an error and the plugin adds no diagnostic: the result is
\* what the wrapped service answered.
C16_UnresolvedImportContributesNothing ==
    (PassEnded /\ pCall.fileName = FileNameOf.c /\ checker # None
        /\ world.import.bindings = "NamedImports" /\ ImportLeadsNowhere) =>
        /\ pPc = "returned"
        /\ PluginEntries = {}
        /\ pResult = pCall.priorDiagnostics

\* C16 witness: a pass returned for c.ts, whose import names a module that does
\* not resolve and whose binding is used twice.
C16_UnresolvedImportPassReturned ==
    /\ PassReturned
    /\ world.import.moduleSpecifier = "./missing"
    /\ resolveModuleName(world.import.moduleSpecifier, FileNameOf.c) = Unresolved
    /\ world.usages = <<1, 1>>
    /\ pCall.priorDiagnostics # <<>>


(***************************************************************************)
(* A file that touches nothing deprecated.                                  *)
(***************************************************************************)
\* the modules the import statement of c.ts reaches: the module it names and
\* the modules that one forwards with export *
ReachedFiles ==
    IF world.import.bindings # "NamedImports" \/ ImportedModule = None THEN {}
    ELSE {ImportedModule}
             \cup {getSourceFile(resolveModuleName(StarModuleSpecifier(world.exportStars[ImportedModule][i]),
                                                   FileNameOf[ImportedModule])) :
                      i \in DOMAIN world.exportStars[ImportedModule]}

\* no usage names the deprecated symbol of c.ts itself, and no node of a reached
\* module (no export, no container of one, no export * statement) has the marker
NothingDeprecated ==
    /\ \A k \in DOMAIN world.usages : world.usages[k] # 0
    /\ \A id \in NodeIds : world.nodes[id].file \in ReachedFiles => ~ world.nodes[id].marked

PointsAt(related, id) ==
    /\ related.file = world.nodes[id].file
    /\ related.start = world.nodes[id].start
    /\ related.length = world.nodes[id].length

\* code 6385, the message, and one related entry with code 2798
HasDeprecationShape(d) ==
    /\ d.code = DeprecatedCode
    /\ \E name \in Range(Bindings(world.import)) :
           d.messageText = <<"'", name, "' is deprecated.">>
    /\ Len(d.relatedInformation) = 1
    /\ d.relatedInformation[1].code = RelatedCode

\* C18 (as stated): every diagnostic of the plugin has code 6385, the message
\* '<name>' is deprecated. and exactly one related entry, with code 2798, whose
\* file, start and length are those of the declaration that holds the marker.
C18_DiagnosticShapeAndDeprecatedDeclaration ==
    PassReturned =>
        \A i \in PluginEntries :
            /\ HasDeprecationShape(pResult[i])
            /\ \E id \in NodeIds \ Files :
                   /\ world.nodes[id].marked
                   /\ PointsAt(pResult[i].relatedInformation[1], id)

\* C18 without the marker: the related entry points at some declaration
C18_ShapeOnly ==
    PassReturned =>
        \A i \in PluginEntries :
            /\ HasDeprecationShape(pResult[i])
            /\ \E id \in NodeIds \ Files : PointsAt(pResult[i].relatedInformation[1], id)


(***************************************************************************)
(* SpecComments: isSymbolDeprecated on the comments of a symbol's           *)
(* declarations.  A text is the sequence of its characters.  The scanner    *)
(* (ts.getLeadingCommentRanges) and the parser (node.jsDoc) are oracles: a  *)
(* declaration is [leading, jsDoc], the texts of the comment ranges before  *)
(* it and of the doc-comment blocks attached to it.  world is here the      *)
(* symbol asked about, pResult the answer.                                  *)
(***************************************************************************)
Marker == <<"@", "d", "e", "p", "r", "e", "c", "a", "t", "e", "d">>

\* //@deprecated x
LineWithMarker == <<"/", "/">> \o Marker \o <<" ", "x">>

\* //@deprecate d       (the marker's letters, split by a blank)
LineWithoutMarker == <<"/", "/", "@", "d", "e", "p", "r", "e", "c", "a", "t", "e", " ", "d">>

\* /*x@deprecatedy*/    (the marker inside other text)
BlockWithMarker == <<"/", "*", "x">> \o Marker \o <<"y", "*", "/">>

\* /**x*/
DocWithoutMarker == <<"/", "*", "*", "x", "*", "/">>

\* /**@deprecated*/  with the blank before it that getFullText() includes
DocWithMarker == <<" ", "/", "*", "*">> \o Marker \o <<"*", "/">>

LeadingComments == {LineWithMarker, LineWithoutMarker, BlockWithMarker, DocWithoutMarker}

JsDocs == {<<>>, <<DocWithMarker>>, <<DocWithoutMarker>>}

MaxComments == 1

MaxDeclarations == 2

Declarations == [leading : SeqsUpTo(LeadingComments, MaxComments), jsDoc : JsDocs]

\* String.prototype.includes
includes(text, searchString) ==
    \E at \in 0 .. Len(text) - Len(searchString) :
        \A i \in 1 .. Len(searchString) : text[at + i] = searchString[i]

\* String.prototype.trim, for texts whose white space is the blank
RECURSIVE trim(_)
trim(text) ==
    IF text = <<>> THEN text
    ELSE IF Head(text) = " " THEN trim(Tail(text))
    ELSE IF text[Len(text)] = " " THEN trim(SubSeq(text, 1, Len(text) - 1))
    ELSE text

\* mutant: the doc-comment blocks are left out
getLeadingCommentsFromNode(node) == node.leading

\* src/src/utils.ts:47-74: the leading comment ranges, then the JSDoc blocks
\* (jsDoc.getFullText(sourceFile).trim())
getCommentsFromNode(node) ==
    node.leading \o [i \in DOMAIN node.jsDoc |-> trim(node.jsDoc[i])]

\* src/src/utils.ts:149-151
getCommentsFromDeclaration(declaration) == getCommentsFromNode(declaration)

\* src/src/utils.ts:158-182, on the comments of a declaration
isDeclarationDeprecatedByComment(declaration) ==
    \E i \in DOMAIN getCommentsFromDeclaration(declaration) :
        includes(getCommentsFromDeclaration(declaration)[i], Marker)

\* symbol.getDeclarations() || [], each declaration with its answer
DeclarationAnswers(declarations) ==
    [i \in DOMAIN declarations |-> isDeclarationDeprecatedByComment(declarations[i])]

InitComments ==
    /\ world \in SeqsUpTo(Declarations, MaxDeclarations)
    /\ checker = None
    /\ caches = EmptyCaches
    /\ pCall = None
    /\ pResult = <<>>
    /\ pPc = "ready"
    /\ mergeIdle
    /\ walkIdle

\* a call of isSymbolDeprecated (src/src/utils.ts:133-136) on the symbol
CallIsSymbolDeprecated ==
    /\ pPc = "ready"
    /\ pCall' = "isSymbolDeprecated"
    /\ pResult' = isSymbolDeprecated([decls |-> DeclarationAnswers(world)])
    /\ pPc' = "answered"
    /\ UNCHANGED <<world, checker, caches, mergeVars, walkVars>>

NextComments == CallIsSymbolDeprecated

SpecComments == InitComments /\ [][NextComments]_vars

\* the comments that hold the marker, by their construction
TextsWithMarker == {LineWithMarker, BlockWithMarker, DocWithMarker}

\* some leading comment or attached doc-comment block of d holds the marker
HoldsMarker(d) ==
    \/ \E i \in DOMAIN d.leading : d.leading[i] \in TextsWithMarker
    \/ \E i \in DOMAIN d.jsDoc : d.jsDoc[i] \in TextsWithMarker

\* C19: isSymbolDeprecated answers true exactly when some declaration of the
\* symbol has a leading comment (line, block or doc-comment block) or an
\* attached JSDoc block that contains @deprecated.
C19_DeprecatedExactlyWhenCommentHoldsMarker ==
    pPc = "answered" =>
        (pResult <=> \E i \in DOMAIN world : HoldsMarker(world[i]))

\* C19 witness: a symbol answered deprecated whose first declaration has only
\* comments without the marker and whose second has the marker in its JSDoc
\* block alone.
C19_DeprecatedByJsDocOfSecondDeclaration ==
    /\ pPc = "answered"
    /\ pCall = "isSymbolDeprecated"
    /\ pResult = TRUE
    /\ Len(world) = 2
    /\ world[1] = [leading |-> <<LineWithoutMarker>>, jsDoc |-> <<DocWithoutMarker>>]
    /\ world[2] = [leading |-> <<>>, jsDoc |-> <<DocWithMarker>>]


(***************************************************************************)
(* The walker on the checker's two alias queries.  SpecChain draws the     *)
(* single-step relation (getImmediateAliasedSymbol, "follow a single alias *)
(* to get the immediate target") and derives from it what the walker       *)
(* follows (getAliasedSymbol, "follow all aliases to get the original      *)
(* symbol"; the checker's unknown symbol when the aliases are circular).   *)
(***************************************************************************)
\* the checker's unknownSymbol: truthy, not an alias, without declarations
UnknownSymbol == "unknown"

ChainSymbols == Symbols \cup {UnknownSymbol}

\* checker.getImmediateAliasedSymbol for every symbol (None: not an alias)
ImmediateAnswers == [Symbols -> Symbols \cup {None}]

\* the end of the single-step chain from s, UnknownSymbol when it has none
RECURSIVE resolveAlias(_, _, _)
resolveAlias(immediate, s, hops) ==
    IF immediate[s] = None THEN s
    ELSE IF hops = 0 THEN UnknownSymbol
    ELSE resolveAlias(immediate, immediate[s], hops - 1)

\* src/unnamed/part_000:358, checker.getAliasedSymbol(currentSymbol)
getAliasedSymbol(immediate, s) ==
    IF immediate[s] = None THEN None
    ELSE resolveAlias(immediate, immediate[s], NumSymbols)

\* the checker's answers about every symbol, UnknownSymbol included
ChainWorld(immediate, decls) ==
    [s \in ChainSymbols |->
        IF s = UnknownSymbol
        THEN [decls |-> <<>>, isAlias |-> FALSE, aliased |-> None,
              immediate |-> None]
        ELSE [decls |-> decls[s], isAlias |-> immediate[s] # None,
              aliased |-> getAliasedSymbol(immediate, s),
              immediate |-> immediate[s]]]

InitChain ==
    /\ \E immediate \in ImmediateAnswers, decls \in [Symbols -> DeclLists] :
           wSymbols = ChainWorld(immediate, decls)
    /\ wStart \in Symbols
    /\ currentSymbol = wStart
    /\ visitedSymbols = {}
    /\ examined = [s \in ChainSymbols |-> 0]
    /\ wIter = 0
    /\ wPc = "loop"
    /\ wResult = FALSE
    /\ mergeIdle
    /\ passIdle

NextChain == WalkIteration

SpecChain == InitChain /\ [][NextChain]_vars

(***************************************************************************)
(* Claims about the walker on alias chains (checked under SpecChain).      *)
(***************************************************************************)
\* one getImmediateAliasedSymbol hop
ImmediateHop(s) == IF s \in Symbols THEN wSymbols[s].immediate ELSE None

RECURSIVE ImmediateHops(_, _)
ImmediateHops(s, n) == IF n = 0 THEN s ELSE ImmediateHops(ImmediateHop(s), n - 1)

\* start, its alias target, that target's alias target, ...
SingleStepChain(s) == {ImmediateHops(s, k) : k \in 0 .. NumSymbols} \ {None}

\* the symbol the single-step chain from s ends on, when it ends
FinalTarget(s) == IF wSymbols[s].isAlias THEN wSymbols[s].aliased ELSE s

\* C20 (as stated): the finished walk has returned true whenever some symbol
\* on the single-step alias chain from the starting symbol is marked
\* deprecated, an alias between the start and the final target included.
C20_MarkedAnywhereOnChainReturnsTrue ==
    (wPc = "done" /\ \E s \in SingleStepChain(wStart) : Marked(s)) =>
        wResult = TRUE

\* C20, what the walker does examine: the finished walk has returned true
\* exactly when the starting symbol or the symbol getAliasedSymbol answers
\* for it is marked deprecated.
C20_StartOrFinalTargetOnly ==
    wPc = "done" =>
        (wResult = TRUE <=> (Marked(wStart) \/ Marked(FinalTarget(wStart))))

\* C20 case: a finished walk from an alias of an alias, the one in between
\* marked deprecated, the start and the final target not.
C20_IntermediateAliasMarked ==
    /\ wPc = "done"
    /\ wSymbols[wStart].isAlias
    /\ ImmediateHop(wStart) # wStart
    /\ wSymbols[ImmediateHop(wStart)].isAlias
    /\ Marked(ImmediateHop(wStart))
    /\ ~ Marked(wStart)
    /\ FinalTarget(wStart) \in Symbols \ {wStart, ImmediateHop(wStart)}
    /\ ~ Marked(FinalTarget(wStart))


(***************************************************************************)
(* SpecResolve: isImportDeclarationDeprecated itself.  The traversal calls *)
(* it on the import statement of c.ts without a symbol to match, and once   *)
(* more for every identifier whose symbol an import specifier declares,     *)
(* with that symbol.  pCall is here [optionalSymbolToMatch, calls], pResult *)
(* the list the call returned; the calls of one pass share the caches.      *)
(***************************************************************************)
\* the calls of one pass that the model follows
MaxCalls == 2

\* src/src/index.ts:667-672: checker.getSymbolAtLocation(node) of an identifier
\* that names a binding of the statement; src/src/index.ts:658: no symbol
SymbolsToMatch(w) ==
    {NoSymbol} \cup {Symbol(w.import.elements[i].name, <<"c.specifier">>) :
                        i \in DOMAIN w.import.elements}

InitResolve ==
    /\ world \in Worlds
    /\ checker = "checker"
    /\ caches = EmptyCaches
    /\ pCall = [optionalSymbolToMatch |-> NoSymbol, calls |-> 0]
    /\ pResult = <<>>
    /\ pPc = "ready"
    /\ mergeIdle
    /\ walkIdle

\* src/src/index.ts:658 and 710-716: one call, to its return or to a TypeError
ResolveCall ==
    \E optionalSymbolToMatch \in SymbolsToMatch(world) :
        \E r \in {isImportDeclarationDeprecated(world, caches, optionalSymbolToMatch)} :
            /\ pPc \in {"ready", "returned"}
            /\ pCall.calls < MaxCalls
            /\ pCall' = [optionalSymbolToMatch |-> optionalSymbolToMatch,
                         calls |-> pCall.calls + 1]
            /\ caches' = r.caches
            /\ pResult' = r.diagnostics
            /\ pPc' = IF r.thrown THEN "thrown" ELSE "returned"
            /\ UNCHANGED <<world, checker, mergeVars, walkVars>>

NextResolve == ResolveCall

SpecResolve == InitResolve /\ [][NextResolve]_vars

(***************************************************************************)
(* Claims about one resolution call (checked under SpecResolve).           *)
(***************************************************************************)
\* C21 (as stated): the list one call returns holds at most one diagnostic
\* for each named binding of the statement: after a deprecated ancestor
\* container the ancestor walk has stopped and the export's own declaration
\* is not checked.
C21_AtMostOneDiagnosticPerBinding ==
    pPc = "returned" =>
        \A i \in DOMAIN world.import.elements :
            Cardinality(DeprecationsAt(ImportSpecifierNode(world, i))) <= 1

\* C21, what the call does emit: a binding whose export has a deprecated
\* ancestor container and a deprecated declaration gets a diagnostic for each.
C21_AtMostTwoDiagnosticsPerBinding ==
    pPc = "returned" =>
        \A i \in DOMAIN world.import.elements :
            Cardinality(DeprecationsAt(ImportSpecifierNode(world, i))) <= 2


\* C22 (as stated): a diagnostic emitted for a binding because a container
\* around the export's declaration is deprecated, the declaration itself not,
\* has related information with the file, start and length of that deprecated
\* container.
C22_RelatedInformationAtDeprecatedAncestor ==
    pPc = "returned" =>
        \A i \in ContainedElements :
            world.import.elements[i].propertyName = None =>
                \A k \in DeprecationsAt(ImportSpecifierNode(world, i)) :
                    \E container \in AncestorsOf(ReferencedDeclaration(i)) :
                        /\ world.nodes[container].marked
                        /\ RelatedLocation(pResult[k]) = LocationOf(container)

\* C22, where the related information does point: at the nested export
\* declaration that was resolved.
C22_RelatedInformationAtNestedDeclaration ==
    pPc = "returned" =>
        \A i \in ContainedElements :
            world.import.elements[i].propertyName = None =>
                \A k \in DeprecationsAt(ImportSpecifierNode(world, i)) :
                    RelatedLocation(pResult[k]) = LocationOf(ReferencedDeclaration(i))

\* C22 case: a call returned a diagnostic for a binding whose export sits in a
\* deprecated container.
C22_AncestorDiagnosticEmitted ==
    /\ pPc = "returned"
    /\ \E i \in ContainedElements :
           /\ world.import.elements[i].propertyName = None
           /\ DeprecationsAt(ImportSpecifierNode(world, i)) # {}


\* C23 (as stated): when the name of a binding is no export of the module and
\* several export * declarations of the module forward a module that exports
\* the sought name, the binding is resolved through the first of them in
\* declaration order: its diagnostics point at that declaration, and it has
\* one when that declaration is deprecated.
C23_FirstForwardingDeclarationWins ==
    (pPc = "returned" /\ FirstParty /\ world.import.bindings = "NamedImports") =>
        LET sought(i) == IF pCall.optionalSymbolToMatch # NoSymbol
                         THEN pCall.optionalSymbolToMatch.name
                         ELSE world.import.elements[i].name
            forwards(d, name) ==
                HasName(getExportsOfModule(world,
                            getSourceFile(resolveModuleName(StarModuleSpecifier(d),
                                                            FileNameOf[ImportedModule]))),
                        name)
            forwarding(i) == SelectSeq(world.exportStars[ImportedModule],
                                       LAMBDA d : forwards(d, sought(i)))
        IN  \A i \in DOMAIN world.import.elements :
                (/\ ~ HasName(getExportsOfModule(world, ImportedModule),
                              world.import.elements[i].name)
                 /\ Len(forwarding(i)) >= 2) =>
                    /\ \A k \in DeprecationsAt(ImportSpecifierNode(world, i)) :
                           RelatedLocation(pResult[k]) = LocationOf(forwarding(i)[1])
                    /\ world.nodes[forwarding(i)[1]].marked =>
                           DeprecationsAt(ImportSpecifierNode(world, i)) # {}

\* C23, what the call does: the binding is resolved through the last of these
\* declarations.
C23_LastForwardingDeclarationWins ==
    (pPc = "returned" /\ FirstParty /\ world.import.bindings = "NamedImports") =>
        LET sought(i) == IF pCall.optionalSymbolToMatch # NoSymbol
                         THEN pCall.optionalSymbolToMatch.name
                         ELSE world.import.elements[i].name
            forwards(d, name) ==
                HasName(getExportsOfModule(world,
                            getSourceFile(resolveModuleName(StarModuleSpecifier(d),
                                                            FileNameOf[ImportedModule]))),
                        name)
            forwarding(i) == SelectSeq(world.exportStars[ImportedModule],
                                       LAMBDA d : forwards(d, sought(i)))
        IN  \A i \in DOMAIN world.import.elements :
                (/\ ~ HasName(getExportsOfModule(world, ImportedModule),
                              world.import.elements[i].name)
                 /\ Len(forwarding(i)) >= 2) =>
                    /\ \A k \in DeprecationsAt(ImportSpecifierNode(world, i)) :
                           RelatedLocation(pResult[k])
                               = LocationOf(forwarding(i)[Len(forwarding(i))])
                    /\ world.nodes[forwarding(i)[Len(forwarding(i))]].marked =>
                           DeprecationsAt(ImportSpecifierNode(world, i)) # {}

\* C23 case: a call returned a diagnostic for a binding that two export *
\* declarations could resolve, the first of them not deprecated.
C23_SecondForwardingDeclarationFlagged ==
    /\ pPc = "returned"
    /\ world.import.moduleSpecifier = "./b"
    /\ Len(world.exportStars["b"]) = 2
    /\ pCall.optionalSymbolToMatch.name = "f"
    /\ ~ world.nodes["b.star1"].marked
    /\ \E k \in DOMAIN pResult : RelatedLocation(pResult[k]) = LocationOf("b.star2")


\* C24 (as stated): in the list returned by a call with a symbol to match, no
\* binding whose resolved export has another name than that symbol has a
\* diagnostic, whether the export was found by name or through an export *
\* declaration.
C24_NoDiagnosticForBindingOfOtherName ==
    (pPc = "returned" /\ pCall.optionalSymbolToMatch # NoSymbol /\ FirstParty) =>
        LET exports == getExportsOfModule(world, ImportedModule)
            exportSymbol(i) ==
                IF HasName(exports, world.import.elements[i].name)
                THEN FindByName(exports, world.import.elements[i].name)
                ELSE MatchWildcards(world, ImportedModule, world.exportStars[ImportedModule],
                                    pCall.optionalSymbolToMatch.name,
                                    Match(NoSymbol, None)).exportSymbol
        IN  \A i \in DOMAIN world.import.elements :
                exportSymbol(i).name # pCall.optionalSymbolToMatch.name =>
                    DeprecationsAt(ImportSpecifierNode(world, i)) = {}

\* C24 on the direct-export path alone: a binding whose name is an export of
\* the module and is not the name of the symbol to match has no diagnostic.
C24_DirectExportOfOtherNameSkipped ==
    (pPc = "returned" /\ pCall.optionalSymbolToMatch # NoSymbol /\ FirstParty) =>
        \A i \in DOMAIN world.import.elements :
            (/\ HasName(getExportsOfModule(world, ImportedModule),
                        world.import.elements[i].name)
             /\ world.import.elements[i].name # pCall.optionalSymbolToMatch.name) =>
                DeprecationsAt(ImportSpecifierNode(world, i)) = {}

\* C24 case: a call with the symbol f to match returned while the statement
\* also binds g, whose export is deprecated.
C24_DeprecatedBindingOfOtherNameSkipped ==
    /\ pPc = "returned"
    /\ pCall.optionalSymbolToMatch.name = "f"
    /\ world.import.moduleSpecifier = "./a"
    /\ \E i \in DOMAIN world.import.elements : world.import.elements[i].name = "g"
    /\ world.nodes["a.g"].marked
    /\ pResult = <<>>


(***************************************************************************)
(* Which statements of the analysed file are resolved (checked under Spec). *)
(***************************************************************************)
\* C25 (as stated): a pass over a file whose statement has only a default or a
\* namespace binding adds no diagnostic, and a re-export  export { f } from "m"
\* of an export whose declaration is deprecated is flagged at its specifier
\* like a named import.
C25_NamedBindingStatementsResolved ==
    PassReturned =>
        /\ world.import.bindings \in {"DefaultImport", "NamespaceImport"} =>
               PluginEntries = {}
        /\ (world.import.bindings = "NamedExports" /\ FirstParty) =>
               \A i \in DOMAIN world.import.elements :
                   LET exportSymbol ==
                           FindByName(getExportsOfModule(world, ImportedModule),
                                      world.import.elements[i].name)
                   IN  (exportSymbol # NoSymbol
                           /\ world.nodes[exportSymbol.declarations[1]].marked) =>
                       DeprecationsAt(ImportSpecifierNode(world, i)) # {}

\* C25, what is resolved: a pass adds nothing unless the statement is an
\* import with named bindings.
C25_OnlyNamedImportsResolved ==
    (PassReturned /\ world.import.bindings # "NamedImports") => PluginEntries = {}

\* C25 case: a pass returned for a file that re-exports the deprecated f.
C25_DeprecatedReExportPassReturned ==
    /\ PassReturned
    /\ world.import.bindings = "NamedExports"
    /\ world.nodes["a.f"].marked


(***************************************************************************)
(* The per-statement memo of a pass (checked under Spec).                   *)
(***************************************************************************)
\* C26 (as stated): at the end of a pass the memo entry of a (statement,
\* symbol) pair holds what one resolution of the statement stores for it, each
\* diagnostic once, however many usage sites asked for the pair: the later
\* resolutions were answered from the entry and walked no declaration again.
C26_MemoEntryHoldsEachDiagnosticOnce ==
    PassReturned =>
        LET once == isImportDeclarationDeprecated(world, EmptyCaches, NoSymbol).caches.importCache
        IN  \A key \in DOMAIN caches.importCache :
                key \in DOMAIN once =>
                    caches.importCache[key].diagnostics = once[key].diagnostics

\* C26 case: a pass returned for a statement that imports the deprecated f and
\* two usages of f; the entry of f holds the diagnostic of the statement and
\* one more for each usage.
C26_EntryGrowsWithEveryUsage ==
    /\ PassReturned
    /\ Len(world.usages) = 2
    /\ \A k \in DOMAIN world.usages : world.usages[k] = 1
    /\ getImportCacheKey(Symbol("f", <<"a.f">>)) \in DOMAIN caches.importCache
    /\ caches.importCache[getImportCacheKey(Symbol("f", <<"a.f">>))].diagnostics = 3


(***************************************************************************)
(* What a pass does to a diagnostic after createDeprecatedDiagnostic has    *)
(* made it (checked under Spec).                                            *)
(***************************************************************************)
\* C27 (as stated): every diagnostic of the plugin in the returned list is, but
\* for its category, a record as createDeprecatedDiagnostic made it in a
\* resolution of the statement: no other field was assigned afterwards.
C27_OnlyCategoryAssignedAfterConstruction ==
    PassReturned =>
        \A i \in PluginEntries :
            \E m \in SymbolsToMatch(world) :
                \E made \in Range(isImportDeclarationDeprecated(world, EmptyCaches, m).diagnostics) :
                    pResult[i] = [made EXCEPT !.category = pResult[i].category]

\* C27, what is left alone: every field but category, start and length.
C27_OnlyCategoryAndSpanAssigned ==
    PassReturned =>
        \A i \in PluginEntries :
            \E m \in SymbolsToMatch(world) :
                \E made \in Range(isImportDeclarationDeprecated(world, EmptyCaches, m).diagnostics) :
                    pResult[i] = [made EXCEPT !.category = pResult[i].category,
                                              !.start = pResult[i].start,
                                              !.length = pResult[i].length]

\* C27 case: a pass returned a diagnostic of the plugin at a usage of a binding.
C27_DiagnosticAtUsageReturned ==
    /\ PassReturned
    /\ \E k \in DOMAIN world.usages :
           \E i \in DeprecationsAt(UsageNode(k)) : pResult[i].by = "plugin"


(***************************************************************************)
(* The category of the plugin's diagnostics (checked under Spec).           *)
(***************************************************************************)
\* C28 (as stated): every diagnostic of the plugin that getSuggestionDiagnostics
\* returns has category Suggestion and every one that getSemanticDiagnostics
\* returns has category Warning, at an import statement and at a usage alike.
C28_CategoryOfThePass ==
    PassReturned =>
        \A i \in PluginEntries :
            pResult[i].category =
                IF pCall.handler = "getSuggestionDiagnostics" THEN "Suggestion" ELSE "Warning"

\* C28, what holds: the diagnostics of getSemanticDiagnostics are warnings.
C28_SemanticPassAllWarnings ==
    (PassReturned /\ pCall.handler = "getSemanticDiagnostics") =>
        \A i \in PluginEntries : pResult[i].category = "Warning"

\* C28 case: getSuggestionDiagnostics returned a diagnostic of the plugin at a
\* usage of a binding.
C28_SuggestionPassFlaggedUsage ==
    /\ PassReturned
    /\ pCall.handler = "getSuggestionDiagnostics"
    /\ \E k \in DOMAIN world.usages :
           \E i \in DeprecationsAt(UsageNode(k)) : pResult[i].by = "plugin"


(***************************************************************************)
(* SpecEdits: the program versions.  The host's program changes with every  *)
(* edit, and getProgram() answers the program of the moment, which has its  *)
(* own type checker.  world is here the version of the host's program,      *)
(* checker [defined, version]: the checker create() captured and the        *)
(* program version it belongs to, pCall what the last pass read.            *)
(***************************************************************************)
MaxEdits == 4

\* src/src/index.ts:615 at plugin creation: getProgram()?.getTypeChecker(),
\* undefined when the service has no program yet
InitEdits ==
    /\ world = 0
    /\ checker \in [defined : BOOLEAN, version : {0}]
    /\ caches = EmptyCaches
    /\ pCall = [handler |-> None, fileName |-> <<>>, program |-> 0, checker |-> 0,
                traversed |-> FALSE]
    /\ pResult = <<>>
    /\ pPc = "ready"
    /\ mergeIdle
    /\ walkIdle

\* the host edits a file: info.languageService.getProgram() answers a new program
Edit ==
    /\ world < MaxEdits
    /\ world' = world + 1
    /\ UNCHANGED <<checker, caches, pCall, pResult, pPc, mergeVars, walkVars>>

\* src/src/index.ts:618-636 and 740-749: the pass reads the source file from
\* getProgram() of the moment (622-624) and resolves symbols with the checker
\* of create() (615, used at 658, 667 and 710-716)
PassOnVersion ==
    \E handler \in {"getSemanticDiagnostics", "getSuggestionDiagnostics"} :
        \E name \in RequestedFiles :
            /\ pCall' = [handler |-> handler, fileName |-> name, program |-> world,
                         checker |-> checker.version,
                         traversed |-> getSourceFile(name) # None /\ checker.defined
                                           /\ isSupportedFileType(name)]
            /\ pPc' = "returned"
            /\ UNCHANGED <<world, checker, caches, pResult, mergeVars, walkVars>>

NextEdits == Edit \/ PassOnVersion

SpecEdits == InitEdits /\ [][NextEdits]_vars

(***************************************************************************)
(* Claims about the program versions (checked under SpecEdits).             *)
(***************************************************************************)
\* C29 (as stated): in every pass that traverses a file, after any number of
\* edits since the plugin was created, the type checker that resolves the
\* symbols belongs to the program version the pass read its source file from.
C29_CheckerOfTheProgramRead ==
    (pPc = "returned" /\ pCall.traversed) => pCall.checker = pCall.program

\* C29, what holds: the checker is the one of the program the plugin was
\* created on.
C29_CheckerOfPluginCreation ==
    (pPc = "returned" /\ pCall.traversed) => pCall.checker = 0

\* C29 case: a pass traversed c.ts after two edits.
C29_PassAfterTwoEdits ==
    /\ pPc = "returned"
    /\ pCall.traversed
    /\ pCall.program = 2


(***************************************************************************)
(* Which files a pass analyses (checked under Spec).                        *)
(***************************************************************************)
\* C30: a pass over a file whose name does not end in .ts, .tsx, .js or .jsx
\* returns the wrapped service's list as it is, adds no diagnostic of the
\* plugin, raises nothing and leaves the caches empty, as no node was
\* visited; so whenever a pass added a diagnostic or wrote a cache, the name
\* ends in one of the four.
C30_OtherSuffixesNotAnalysed ==
    PassEnded =>
        LET suffix == IF pCall.fileName = <<>> THEN None
                      ELSE pCall.fileName[Len(pCall.fileName)]
        IN  suffix \notin {".ts", ".tsx", ".js", ".jsx"} =>
                /\ pPc = "returned"
                /\ pResult = pCall.priorDiagnostics
                /\ PluginEntries = {}
                /\ caches = EmptyCaches

\* C30 witness: a pass returned for data.json while the statement that the
\* traversal would visit imports the deprecated f of a.ts and f is used.
C30_UnsupportedFilePassReturned ==
    /\ pPc = "returned"
    /\ pCall.fileName = FileNameOf.j
    /\ checker # None
    /\ world.import.bindings = "NamedImports"
    /\ world.import.moduleSpecifier = "./a"
    /\ world.nodes["a.f"].marked
    /\ \E k \in DOMAIN world.usages : world.usages[k] = 1
    /\ pResult = pCall.priorDiagnostics

=============================================================================
